---------------------------- MODULE Spec2Model ----------------------------
(***************************************************************************)
(* Pricepilot: the ingestion and reconciliation pipeline.                  *)
(*                                                                         *)
(* The model covers the price ledger (PriceService.update_or_create_price  *)
(* in backend/app/price_service.py), the orchestrator's store path         *)
(* (ScraperPipeline._store_product_data in backend/run_scrapers.py) and    *)
(* the entity-resolution matcher (ProductMatcher in the same file), the    *)
(* orchestration pass with its ScraperRun records (run_all_scrapers in the *)
(* same file, the scrapers' search_product in scrapers/), the live runner  *)
(* (run_live_scrapers.py) and the retry policy (scrapers/base.py).         *)
(*                                                                         *)
(* Units.  Money is counted in cents (the Price columns are Numeric(10,2)),*)
(* so the materiality threshold Decimal('0.01') is 1.  A discount is       *)
(* counted in hundredths of a percent (the column is Numeric(5,2)).  A     *)
(* similarity score is counted in 1/ScoreUnit points, so that the keyword  *)
(* score matches/max(len) * 100 stays an integer.  Timestamps are ticks of *)
(* a clock that advances at every call of datetime.utcnow(); where        *)
(* durations are taken a tick is 1/TicksPerSecond of a second.             *)
(*                                                                         *)
(* An optional value (Python None or a value) is a sequence of length 0    *)
(* or 1.                                                                   *)
(***************************************************************************)
EXTENDS Integers, Sequences, FiniteSets, TLC

VARIABLES
    products,   \* table products: sequence of Product rows, id = position
    prices,     \* table prices: sequence of Price rows, id = position
    history,    \* table price_history: sequence of PriceHistory rows
    clock,      \* datetime.utcnow()
    calls,      \* log of the calls made so far, with their arguments
    runs,       \* table scraper_runs: sequence of ScraperRun rows
    job,        \* the orchestration pass: its position, locals and session
    retry,      \* a retry loop driven by ScraperErrorHandler
    procs,      \* two passes of run_all_scrapers in processes of their own
    analysis    \* the last result of calculate_price_trends, with its input

vars ==
    <<products, prices, history, clock, calls, runs, job, retry, procs,
      analysis>>

-----------------------------------------------------------------------------
(* Bounds *)

\* number of ledger calls in one behaviour
MaxOps == 3

\* number of matcher calls in one behaviour of the matcher specification
MaxResolves == 4

-----------------------------------------------------------------------------
(* Values *)

None == <<>>
Some(x) == <<x>>
Val(o) == o[1]

\* Python truthiness of an optional number: None and 0 are falsy
Truthy(o) == o # None /\ Val(o) # 0

Abs(x) == IF x < 0 THEN -x ELSE x

Max(a, b) == IF a >= b THEN a ELSE b

\* n/d rounded to the nearest integer, ties to the even one (d > 0):
\* Python's round() on a Decimal
RoundHalfEven(n, d) ==
    LET q == n \div d
        r == n % d
    IN  IF 2 * r < d THEN q
        ELSE IF 2 * r > d THEN q + 1
        ELSE IF q % 2 = 0 THEN q ELSE q + 1

Vendors == {"amazon", "bestbuy"}

\* Scraped observations (ScrapedProduct without its name / the scraped_data
\* dict): price and original_price in cents.
\*   ObsA: 248.00 reduced from 349.99
\*   ObsB: 248.01, no original price (0.01 above ObsA)
\*   ObsC: 248.02 with original price 248.02 (0.02 above ObsA, 0.01 above ObsB)
ObsA == [price |-> 24800, original_price |-> Some(34999),
         stock_status |-> "in_stock", product_url |-> "url1",
         variations |-> "var1"]
ObsB == [price |-> 24801, original_price |-> None,
         stock_status |-> "out_of_stock", product_url |-> "url2",
         variations |-> "var2"]
ObsC == [price |-> 24802, original_price |-> Some(24802),
         stock_status |-> "limited_stock", product_url |-> "url1",
         variations |-> "var2"]

Observations == {ObsA, ObsB, ObsC}

-----------------------------------------------------------------------------
(* Entity-resolution matcher: ProductMatcher *)

SonyA     == "Sony WH-1000XM4"
SonyB     == "Sony WH1000XM4 Headphones"
SonyC     == "Over-Ear Headphones 1000XM4 by Sony"
Generic   == "Headphones"
Jbl       == "JBL Charge 5"
EmptyName == ""
Combo     == "HP Laptop Speaker"

Names == {SonyA, SonyB, SonyC, Generic, Jbl, EmptyName, Combo}

\* names the orchestrator's store path is driven with
StoreNames == {SonyA, SonyB, Jbl}

similarity_threshold == 80

ScoreUnit == 60

\* fuzz.ratio, fuzz.token_sort_ratio and fuzz.partial_ratio (library
\* fuzzywuzzy) of the lower-cased names, for two different non-empty names
FuzzTable ==
  <<"Sony WH-1000XM4", "Sony WH1000XM4 Headphones">> :> <<70, 40, 93>> @@
  <<"Sony WH-1000XM4", "Over-Ear Headphones 1000XM4 by Sony">> :> <<40, 48, 67>> @@
  <<"Sony WH-1000XM4", "Headphones">> :> <<16, 16, 20>> @@
  <<"Sony WH-1000XM4", "JBL Charge 5">> :> <<15, 15, 17>> @@
  <<"Sony WH1000XM4 Headphones", "Sony WH-1000XM4">> :> <<70, 40, 93>> @@
  <<"Sony WH1000XM4 Headphones", "Over-Ear Headphones 1000XM4 by Sony">> :> <<40, 50, 48>> @@
  <<"Sony WH1000XM4 Headphones", "Headphones">> :> <<57, 57, 100>> @@
  <<"Sony WH1000XM4 Headphones", "JBL Charge 5">> :> <<16, 16, 35>> @@
  <<"Over-Ear Headphones 1000XM4 by Sony", "Sony WH-1000XM4">> :> <<40, 48, 67>> @@
  <<"Over-Ear Headphones 1000XM4 by Sony", "Sony WH1000XM4 Headphones">> :> <<40, 50, 48>> @@
  <<"Over-Ear Headphones 1000XM4 by Sony", "Headphones">> :> <<44, 44, 100>> @@
  <<"Over-Ear Headphones 1000XM4 by Sony", "JBL Charge 5">> :> <<13, 17, 25>> @@
  <<"Headphones", "Sony WH-1000XM4">> :> <<16, 16, 20>> @@
  <<"Headphones", "Sony WH1000XM4 Headphones">> :> <<57, 57, 100>> @@
  <<"Headphones", "Over-Ear Headphones 1000XM4 by Sony">> :> <<44, 44, 100>> @@
  <<"Headphones", "JBL Charge 5">> :> <<18, 18, 24>> @@
  <<"JBL Charge 5", "Sony WH-1000XM4">> :> <<15, 15, 17>> @@
  <<"JBL Charge 5", "Sony WH1000XM4 Headphones">> :> <<22, 11, 35>> @@
  <<"JBL Charge 5", "Over-Ear Headphones 1000XM4 by Sony">> :> <<17, 21, 25>> @@
  <<"JBL Charge 5", "Headphones">> :> <<27, 27, 24>> @@
  <<"Sony WH-1000XM4", "HP Laptop Speaker">> :> <<6, 12, 9>> @@
  <<"HP Laptop Speaker", "Sony WH-1000XM4">> :> <<6, 12, 9>> @@
  <<"Sony WH1000XM4 Headphones", "HP Laptop Speaker">> :> <<19, 19, 27>> @@
  <<"HP Laptop Speaker", "Sony WH1000XM4 Headphones">> :> <<24, 24, 27>> @@
  <<"Over-Ear Headphones 1000XM4 by Sony", "HP Laptop Speaker">> :> <<12, 23, 24>> @@
  <<"HP Laptop Speaker", "Over-Ear Headphones 1000XM4 by Sony">> :> <<19, 23, 24>> @@
  <<"Headphones", "HP Laptop Speaker">> :> <<30, 30, 40>> @@
  <<"HP Laptop Speaker", "Headphones">> :> <<30, 30, 40>> @@
  <<"JBL Charge 5", "HP Laptop Speaker">> :> <<28, 21, 30>> @@
  <<"HP Laptop Speaker", "JBL Charge 5">> :> <<14, 21, 30>> @@
  <<"Sony WH-1000XM4", "Best Buy Product for Sony WH-1000XM4">> :> <<59, 59, 100>> @@
  <<"Sony WH-1000XM4", "Best Buy Product for Bose QuietComfort">> :> <<15, 15, 20>> @@
  <<"Sony WH-1000XM4", "Best Buy Product for JBL Charge 5">> :> <<17, 21, 20>> @@
  <<"JBL Charge 5", "Best Buy Product for Sony WH-1000XM4">> :> <<17, 12, 25>> @@
  <<"JBL Charge 5", "Best Buy Product for Bose QuietComfort">> :> <<24, 16, 25>> @@
  <<"JBL Charge 5", "Best Buy Product for JBL Charge 5">> :> <<53, 53, 100>> @@
  <<"Best Buy Product for Sony WH-1000XM4", "Sony WH-1000XM4">> :> <<59, 59, 100>> @@
  <<"Best Buy Product for Sony WH-1000XM4", "JBL Charge 5">> :> <<12, 8, 25>> @@
  <<"Best Buy Product for Sony WH-1000XM4", "Best Buy Product for Bose QuietComfort">> :> <<65, 59, 67>> @@
  <<"Best Buy Product for Sony WH-1000XM4", "Best Buy Product for JBL Charge 5">> :> <<67, 61, 70>> @@
  <<"Best Buy Product for Bose QuietComfort", "Sony WH-1000XM4">> :> <<15, 15, 20>> @@
  <<"Best Buy Product for Bose QuietComfort", "JBL Charge 5">> :> <<20, 16, 25>> @@
  <<"Best Buy Product for Bose QuietComfort", "Best Buy Product for Sony WH-1000XM4">> :> <<65, 59, 67>> @@
  <<"Best Buy Product for Bose QuietComfort", "Best Buy Product for JBL Charge 5">> :> <<68, 56, 73>> @@
  <<"Best Buy Product for JBL Charge 5", "Sony WH-1000XM4">> :> <<17, 21, 20>> @@
  <<"Best Buy Product for JBL Charge 5", "JBL Charge 5">> :> <<53, 53, 100>> @@
  <<"Best Buy Product for JBL Charge 5", "Best Buy Product for Sony WH-1000XM4">> :> <<67, 61, 70>> @@
  <<"Best Buy Product for JBL Charge 5", "Best Buy Product for Bose QuietComfort">> :> <<68, 56, 73>>

\* variant: the empty string scores 0 against every string, itself included
FuzzScoresEmptyFirst(scraped, existing) ==
    IF scraped = "" \/ existing = "" THEN <<0, 0, 0>>
    ELSE IF scraped = existing THEN <<100, 100, 100>>
    ELSE FuzzTable[<<scraped, existing>>]

\* the three fuzz scores of a scraped name against a product name; the
\* library returns 100 for equal strings (the check for equivalence comes
\* before the check for empty strings, so two empty strings score 100) and
\* 0 when only one of the strings is empty
FuzzScores(scraped, existing) ==
    IF scraped = existing THEN <<100, 100, 100>>
    ELSE IF scraped = "" \/ existing = "" THEN <<0, 0, 0>>
    ELSE FuzzTable[<<scraped, existing>>]

\* _extract_product_keywords: brand names, product types and the matches of
\* the four model patterns, in the order the code appends them
extract_product_keywords(product_name) ==
    CASE product_name = "Sony WH-1000XM4" -> <<"sony", "m4", "1000", "4">>
      [] product_name = "Sony WH1000XM4 Headphones" ->
             <<"sony", "headphones", "m4", "1000", "4">>
      [] product_name = "Over-Ear Headphones 1000XM4 by Sony" ->
             <<"sony", "headphones", "m4", "1000", "4">>
      [] product_name = "Headphones" -> <<"headphones">>
      [] product_name = "JBL Charge 5" -> <<"jbl", "5">>
      [] product_name = "HP Laptop Speaker" -> <<"hp", "speaker">>
      [] product_name = "Best Buy Product for Sony WH-1000XM4" ->
             <<"sony", "m4", "1000", "4", "pro">>
      [] product_name = "Best Buy Product for Bose QuietComfort" ->
             <<"bose", "pro">>
      [] product_name = "Best Buy Product for JBL Charge 5" ->
             <<"jbl", "5", "pro">>
      [] product_name = "" -> <<>>

Range(s) == {s[i] : i \in 1..Len(s)}

\* the scores list of one candidate, in 1/ScoreUnit points
Scores(scraped, existing) ==
    LET fz  == FuzzScores(scraped, existing)
        pk  == extract_product_keywords(scraped)
        ppk == extract_product_keywords(existing)
        base == {fz[1] * ScoreUnit, fz[2] * ScoreUnit, fz[3] * ScoreUnit}
    IN  IF pk # <<>> /\ ppk # <<>>
        THEN base \cup
             {(Cardinality(Range(pk) \cap Range(ppk)) * 100 * ScoreUnit)
                 \div Max(Len(pk), Len(ppk))}
        ELSE base

SetMax(S) == CHOOSE x \in S : \A y \in S : y <= x

\* score = max(scores)
CompositeScore(scraped, existing) == SetMax(Scores(scraped, existing))

\* variant: the threshold test is left out of the comparison
IsBetterNoThreshold(score, best_score) == score > best_score

\* the test that makes a candidate the new best match
IsBetter(score, best_score) ==
    score > best_score /\ score >= similarity_threshold * ScoreUnit

\* the loop over existing_products: the state <<best_match, best_score>>
\* after the first n products (best_match = 0 is Python's None)
RECURSIVE MatchLoop(_, _, _)
MatchLoop(scraped, catalog, n) ==
    IF n = 0 THEN <<0, 0>>
    ELSE LET prev  == MatchLoop(scraped, catalog, n - 1)
             score == CompositeScore(scraped, catalog[n].name)
         IN  IF IsBetter(score, prev[2]) THEN <<n, score>> ELSE prev

BestMatch(scraped, catalog) == MatchLoop(scraped, catalog, Len(catalog))[1]

\* category_keywords of _determine_category, in the order of the dict
category_keywords ==
    << [category |-> "laptops",
        keywords |-> {"laptop", "macbook", "notebook", "ultrabook",
                      "chromebook"}],
       [category |-> "headphones",
        keywords |-> {"headphone", "earphone", "earbud", "airpods",
                      "headset"}],
       [category |-> "speakers",
        keywords |-> {"speaker", "soundbar", "bluetooth speaker",
                      "wireless speaker"}] >>

\* the rows of table categories, which _ensure_vendors_exist creates before
\* any scraper runs
Categories == {"laptops", "headphones", "speakers"}

\* `keyword in name_lower`: the category keywords that are substrings of
\* the lower-cased name
KeywordsIn(product_name) ==
    CASE product_name = "Sony WH-1000XM4" -> {}
      [] product_name = "Sony WH1000XM4 Headphones" -> {"headphone"}
      [] product_name = "Over-Ear Headphones 1000XM4 by Sony" -> {"headphone"}
      [] product_name = "Headphones" -> {"headphone"}
      [] product_name = "JBL Charge 5" -> {}
      [] product_name = "HP Laptop Speaker" -> {"laptop", "speaker"}
      [] product_name = "Best Buy Product for Sony WH-1000XM4" -> {}
      [] product_name = "Best Buy Product for Bose QuietComfort" -> {}
      [] product_name = "Best Buy Product for JBL Charge 5" -> {}
      [] product_name = "" -> {}

\* db.query(Category).filter(Category.name == name).first(), None as <<>>
CategoryByName(name) == IF name \in Categories THEN Some(name) ELSE None

\* variant: the loop goes through category_keywords from its last entry
RECURSIVE determine_category_reversed(_, _)
determine_category_reversed(product_name, i) ==
    IF i > Len(category_keywords) THEN CategoryByName("laptops")
    ELSE LET j == Len(category_keywords) + 1 - i
         IN  IF category_keywords[j].keywords \cap KeywordsIn(product_name)
                   # {}
                /\ CategoryByName(category_keywords[j].category) # None
             THEN CategoryByName(category_keywords[j].category)
             ELSE determine_category_reversed(product_name, i + 1)

\* _determine_category from entry i of category_keywords on: the first
\* category with a keyword in the name that exists, else 'laptops'
RECURSIVE determine_category(_, _)
determine_category(product_name, i) ==
    IF i > Len(category_keywords) THEN CategoryByName("laptops")
    ELSE IF category_keywords[i].keywords \cap KeywordsIn(product_name) # {}
            /\ CategoryByName(category_keywords[i].category) # None
         THEN CategoryByName(category_keywords[i].category)
         ELSE determine_category(product_name, i + 1)

common_brands ==
    <<"Apple", "Samsung", "Sony", "Bose", "Dell", "HP", "Lenovo", "ASUS",
      "Acer", "Microsoft", "Google", "Amazon", "JBL", "Beats">>

\* product_name.split()
NameWords(product_name) ==
    CASE product_name = "Sony WH-1000XM4" -> <<"Sony", "WH-1000XM4">>
      [] product_name = "Sony WH1000XM4 Headphones" ->
             <<"Sony", "WH1000XM4", "Headphones">>
      [] product_name = "Over-Ear Headphones 1000XM4 by Sony" ->
             <<"Over-Ear", "Headphones", "1000XM4", "by", "Sony">>
      [] product_name = "Headphones" -> <<"Headphones">>
      [] product_name = "JBL Charge 5" -> <<"JBL", "Charge", "5">>
      [] product_name = "HP Laptop Speaker" -> <<"HP", "Laptop", "Speaker">>
      [] product_name = "Best Buy Product for Sony WH-1000XM4" ->
             <<"Best", "Buy", "Product", "for", "Sony", "WH-1000XM4">>
      [] product_name = "Best Buy Product for Bose QuietComfort" ->
             <<"Best", "Buy", "Product", "for", "Bose", "QuietComfort">>
      [] product_name = "Best Buy Product for JBL Charge 5" ->
             <<"Best", "Buy", "Product", "for", "JBL", "Charge", "5">>
      [] product_name = "" -> <<>>

\* str.lower() on the words of the names and on the brands
Lower(word) ==
    CASE word = "Sony" -> "sony"           [] word = "WH-1000XM4" -> "wh-1000xm4"
      [] word = "WH1000XM4" -> "wh1000xm4" [] word = "Headphones" -> "headphones"
      [] word = "Over-Ear" -> "over-ear"   [] word = "1000XM4" -> "1000xm4"
      [] word = "by" -> "by"               [] word = "JBL" -> "jbl"
      [] word = "Charge" -> "charge"       [] word = "5" -> "5"
      [] word = "HP" -> "hp"               [] word = "Laptop" -> "laptop"
      [] word = "Speaker" -> "speaker"     [] word = "Apple" -> "apple"
      [] word = "Samsung" -> "samsung"     [] word = "Bose" -> "bose"
      [] word = "Dell" -> "dell"           [] word = "Lenovo" -> "lenovo"
      [] word = "ASUS" -> "asus"           [] word = "Acer" -> "acer"
      [] word = "Microsoft" -> "microsoft" [] word = "Google" -> "google"
      [] word = "Amazon" -> "amazon"       [] word = "Beats" -> "beats"
      [] word = "Best" -> "best"           [] word = "Buy" -> "buy"
      [] word = "Product" -> "product"     [] word = "for" -> "for"
      [] word = "QuietComfort" -> "quietcomfort"
      [] word = "MacBook" -> "macbook"     [] word = "iPad" -> "ipad"
      [] word = "iPhone" -> "iphone"       [] word = "AirPods" -> "airpods"

\* the inner loop of _extract_brand: the first brand equal to the word
\* without regard to case, from brand b on (None when there is none)
RECURSIVE BrandOfWord(_, _)
BrandOfWord(word, b) ==
    IF b > Len(common_brands) THEN None
    ELSE IF Lower(word) = Lower(common_brands[b]) THEN Some(common_brands[b])
         ELSE BrandOfWord(word, b + 1)

\* the outer loop of _extract_brand, from word w on
RECURSIVE BrandLoop(_, _)
BrandLoop(name_words, w) ==
    IF w > Len(name_words) THEN None
    ELSE IF BrandOfWord(name_words[w], 1) # None
         THEN BrandOfWord(name_words[w], 1)
         ELSE BrandLoop(name_words, w + 1)

\* _extract_brand: a known brand among the words, else the first word
extract_brand(product_name) ==
    LET name_words == NameWords(product_name)
    IN  IF BrandLoop(name_words, 1) # None THEN Val(BrandLoop(name_words, 1))
        ELSE IF name_words # <<>> THEN name_words[1]
        ELSE "Unknown"

\* _create_new_product (category_id is the category's name, None as <<>>)
create_new_product(scraped) ==
    [name |-> scraped, brand |-> extract_brand(scraped),
     category_id |-> determine_category(scraped, 1),
     popularity_score |-> 1]

\* find_matching_product: the catalog afterwards and the product returned
find_matching_product(scraped, catalog) ==
    LET m == BestMatch(scraped, catalog)
    IN  IF m # 0
        THEN [catalog |-> catalog, id |-> m]
        ELSE [catalog |-> Append(catalog, create_new_product(scraped)),
              id |-> Len(catalog) + 1]

-----------------------------------------------------------------------------
(* Price ledger *)

\* db.query(Price).filter(product_id, vendor_id).first(): the position of
\* the first matching row, 0 for None
RECURSIVE FirstFrom(_, _, _, _)
FirstFrom(rows, pid, vid, i) ==
    IF i > Len(rows) THEN 0
    ELSE IF rows[i].product_id = pid /\ rows[i].vendor_id = vid THEN i
    ELSE FirstFrom(rows, pid, vid, i + 1)

\* variant: the query filters on Price.id instead of Price.product_id
ExistingPriceById(rows, pid, vid) ==
    IF pid \in 1..Len(rows) /\ rows[pid].vendor_id = vid THEN pid ELSE 0

ExistingPrice(rows, pid, vid) == FirstFrom(rows, pid, vid, 1)

\* price_service.py: discount_percentage of update_or_create_price, as the
\* Numeric(5,2) column stores it
PsDiscount(obs) ==
    IF Truthy(obs.original_price) /\ obs.price < Val(obs.original_price)
    THEN Some(RoundHalfEven((Val(obs.original_price) - obs.price) * 10000,
                            Val(obs.original_price)))
    ELSE None

\* variant: a change that is not material leaves the stored price as it was
PsUpdatedRowMaterialOnly(existing_price, obs, now) ==
    [existing_price EXCEPT
        !.price               = IF Abs(@ - obs.price) > 1 THEN obs.price ELSE @,
        !.original_price      = IF Truthy(obs.original_price)
                                THEN obs.original_price ELSE None,
        !.discount_percentage = PsDiscount(obs),
        !.stock_status        = obs.stock_status,
        !.product_url         = obs.product_url,
        !.variation_details   = obs.variations,
        !.last_updated_at     = now]

\* variant: a change of exactly 0.01 counts as a change
PriceChangedInclusive(old_price, new_price) == Abs(old_price - new_price) >= 1

\* variant: every update counts as a change
PriceChangedAlways(old_price, new_price) == TRUE

\* price_changed = abs(existing_price.price - new_price) > Decimal('0.01')
PriceChanged(old_price, new_price) == Abs(old_price - new_price) > 1

\* _archive_price_to_history
archive_price_to_history(price_record, price_id) ==
    [price_id            |-> price_id,
     product_id          |-> price_record.product_id,
     vendor_id           |-> price_record.vendor_id,
     price               |-> price_record.price,
     original_price      |-> price_record.original_price,
     discount_percentage |-> price_record.discount_percentage,
     stock_status        |-> price_record.stock_status,
     product_url         |-> price_record.product_url,
     variation_details   |-> price_record.variation_details,
     recorded_at         |-> price_record.last_updated_at]

\* variant: the archive is taken after the Price row has been overwritten
PsHistoryAfterOverwrite(hist, existing_price, price_id, obs, now) ==
    IF PriceChanged(existing_price.price, obs.price)
    THEN Append(hist,
           archive_price_to_history(
             [existing_price EXCEPT !.price = obs.price,
                                    !.stock_status = obs.stock_status,
                                    !.product_url = obs.product_url,
                                    !.variation_details = obs.variations,
                                    !.last_updated_at = now],
             price_id))
    ELSE hist

\* the history table after the materiality check of update_or_create_price
PsHistory(hist, existing_price, price_id, obs, now) ==
    IF PriceChanged(existing_price.price, obs.price)
    THEN Append(hist, archive_price_to_history(existing_price, price_id))
    ELSE hist

\* update_or_create_price, branch "if existing_price": the row afterwards
PsUpdatedRow(existing_price, obs, now) ==
    [existing_price EXCEPT
        !.price               = obs.price,
        !.original_price      = IF Truthy(obs.original_price)
                                THEN obs.original_price ELSE None,
        !.discount_percentage = PsDiscount(obs),
        !.stock_status        = obs.stock_status,
        !.product_url         = obs.product_url,
        !.variation_details   = obs.variations,
        !.last_updated_at     = now]

\* update_or_create_price, branch "else": the new Price row
PsNewRow(pid, vid, obs, now) ==
    [product_id          |-> pid,
     vendor_id           |-> vid,
     price               |-> obs.price,
     original_price      |-> IF Truthy(obs.original_price)
                             THEN obs.original_price ELSE None,
     discount_percentage |-> PsDiscount(obs),
     stock_status        |-> obs.stock_status,
     product_url         |-> obs.product_url,
     variation_details   |-> obs.variations,
     last_updated_at     |-> now]

\* PriceService.update_or_create_price(product_id, vendor_id, scraped_data)
update_or_create_price(pid, vid, obs) ==
    /\ clock < MaxOps
    /\ pid \in 1..Len(products)
    /\ LET now == clock + 1
           i   == ExistingPrice(prices, pid, vid)
       IN  /\ IF i # 0
              THEN /\ history' = PsHistory(history, prices[i], i, obs, now)
                   /\ prices' = [prices EXCEPT ![i] = PsUpdatedRow(@, obs, now)]
              ELSE /\ history' = history
                   /\ prices' = Append(prices, PsNewRow(pid, vid, obs, now))
           /\ clock' = now
           /\ calls' = Append(calls, [op |-> "update_or_create_price",
                                       product_id |-> pid, vendor_id |-> vid,
                                       name |-> "", obs |-> obs])
    /\ UNCHANGED <<products, runs, job, retry, procs, analysis>>

-----------------------------------------------------------------------------
(* Orchestrator store path: ScraperPipeline._store_product_data *)

\* discount = ((original_price - price) / original_price) * 100, rounded
StoreDiscountValue(obs) ==
    RoundHalfEven((Val(obs.original_price) - obs.price) * 10000,
                  Val(obs.original_price))

\* the guard "if scraped_product.original_price and scraped_product.price"
StoreHasDiscount(obs) == Truthy(obs.original_price) /\ obs.price # 0

\* branch "if existing_price": the row afterwards
StoreUpdatedRow(existing_price, obs, now) ==
    [existing_price EXCEPT
        !.price               = obs.price,
        !.original_price      = obs.original_price,
        !.stock_status        = obs.stock_status,
        !.product_url         = obs.product_url,
        !.last_updated_at     = now,
        !.discount_percentage = IF StoreHasDiscount(obs)
                                THEN Some(StoreDiscountValue(obs)) ELSE @]

\* branch "else": the new Price row (last_updated_at by the column default)
StoreNewRow(pid, vid, obs, now) ==
    [product_id          |-> pid,
     vendor_id           |-> vid,
     price               |-> obs.price,
     original_price      |-> obs.original_price,
     discount_percentage |-> IF StoreHasDiscount(obs)
                             THEN Some(StoreDiscountValue(obs)) ELSE None,
     stock_status        |-> obs.stock_status,
     product_url         |-> obs.product_url,
     variation_details   |-> obs.variations,
     last_updated_at     |-> now]

\* product.popularity_score += 1
BumpPopularity(catalog, pid) ==
    [catalog EXCEPT ![pid].popularity_score = @ + 1]

\* the price_history table after _store_product_data
StoreHistory(hist, existing_price, price_id, obs) == hist

\* ScraperPipeline._store_product_data(scraped_product, vendor, db)
store_product_data(vid, name, obs) ==
    /\ clock < MaxOps
    /\ LET now == clock + 1
           res == find_matching_product(name, products)
           pid == res.id
           i   == ExistingPrice(prices, pid, vid)
       IN  /\ IF i # 0
              THEN /\ prices' = [prices EXCEPT ![i] = StoreUpdatedRow(@, obs, now)]
                   /\ history' = StoreHistory(history, prices[i], i, obs)
              ELSE /\ prices' = Append(prices, StoreNewRow(pid, vid, obs, now))
                   /\ history' = history
           /\ products' = BumpPopularity(res.catalog, pid)
           /\ clock' = now
           /\ calls' = Append(calls, [op |-> "store_product_data",
                                       product_id |-> pid, vendor_id |-> vid,
                                       name |-> name, obs |-> obs])
    /\ UNCHANGED <<runs, job, retry, procs, analysis>>

-----------------------------------------------------------------------------
(* Vendor scrapers: search_product *)

\* the vendor scrapers of the pipeline in the order of self.scrapers
\* (the first two of amazon, bestbuy, walmart, brand)
scrapers == <<"amazon", "bestbuy">>

\* hasattr(scraper, 'quit_selenium'): only AmazonScraper defines it
HasQuitSelenium(vendor_name) == vendor_name = "amazon"

\* search queries of main(), a selection in their order
AllQueries == <<"Sony WH-1000XM4", "Bose QuietComfort", "JBL Charge 5">>

\* number of search queries of one pass
MaxQueries == 2

search_queries ==
    SubSeq(AllQueries, 1,
           IF MaxQueries < Len(AllQueries) THEN MaxQueries ELSE Len(AllQueries))

\* a scraped product: its name and the rest of the ScrapedProduct
ItemA == [name |-> SonyA, obs |-> ObsA]
ItemJ == [name |-> Jbl, obs |-> ObsB]

\* what the vendor's site answers to a search: the fetch raises, the
\* response is not a success (status other than 200, or no html), or a page
\* with the products its containers parse to
Fetches ==
    {[kind |-> "exception", products |-> <<>>],
     [kind |-> "status", products |-> <<>>],
     [kind |-> "page", products |-> <<>>],
     [kind |-> "page", products |-> <<ItemA>>],
     [kind |-> "page", products |-> <<ItemA, ItemJ>>]}

\* `word in query.lower()` for the queries of AllQueries
QueryContains(query, word) == FALSE

\* f"Best Buy Product for {query}"
MockName(query) ==
    CASE query = "Sony WH-1000XM4" -> "Best Buy Product for Sony WH-1000XM4"
      [] query = "Bose QuietComfort" -> "Best Buy Product for Bose QuietComfort"
      [] query = "JBL Charge 5" -> "Best Buy Product for JBL Charge 5"

\* a ScrapedProduct of the mock lists: in stock, variations=[] ("var0")
MockObs(price, original_price, product_url) ==
    [price |-> price, original_price |-> original_price,
     stock_status |-> "in_stock", product_url |-> product_url,
     variations |-> "var0"]

\* BestBuyScraper._create_mock_bestbuy_products(query)
create_mock_bestbuy_products(query) ==
    IF QueryContains(query, "macbook")
    THEN << [name |-> "Apple MacBook Pro 14-inch M3 Pro",
             obs |-> MockObs(199999, Some(219999),
                 "https://www.bestbuy.com/site/apple-macbook-pro-14-inch/mock1")],
            [name |-> "Apple MacBook Pro 16-inch M3 Max",
             obs |-> MockObs(249999, None,
                 "https://www.bestbuy.com/site/apple-macbook-pro-16-inch/mock2")] >>
    ELSE IF QueryContains(query, "iphone")
    THEN << [name |-> "Apple iPhone 15 Pro 128GB",
             obs |-> MockObs(99999, None,
                 "https://www.bestbuy.com/site/apple-iphone-15-pro/mock3")] >>
    ELSE << [name |-> MockName(query),
             obs |-> MockObs(29999, None,
                 "https://www.bestbuy.com/site/search-result/mock")] >>

\* AmazonScraper.search_product: every failure is logged and gives []
AmazonSearch(query, fetch) ==
    IF fetch.kind = "page" THEN fetch.products ELSE <<>>

\* BestBuyScraper.search_product: [] for a status other than 200, mock
\* products when no container is found or when anything raises
BestBuySearch(query, fetch) ==
    IF fetch.kind = "exception" THEN create_mock_bestbuy_products(query)
    ELSE IF fetch.kind = "status" THEN <<>>
    ELSE IF fetch.products = <<>> THEN create_mock_bestbuy_products(query)
    ELSE fetch.products

\* await scraper.search_product(query)
search_product(vendor_name, query, fetch) ==
    IF vendor_name = "amazon" THEN AmazonSearch(query, fetch)
    ELSE BestBuySearch(query, fetch)

-----------------------------------------------------------------------------
(* Orchestration pass: ScraperPipeline.run_all_scrapers *)

(***************************************************************************)
(* The pass is a sequence of steps, one for each call it makes:            *)
(* _start_scraper_run, scraper.search_product, _store_product_data,        *)
(* _complete_scraper_run, _fail_scraper_run and scraper.quit_selenium.     *)
(* job.pc is the call the pass is about to make.                           *)
(*                                                                         *)
(* The calls into the database can raise.  run_scrapers.py never calls     *)
(* db.rollback(), and a Session whose commit has failed refuses every      *)
(* later operation until rollback() is called: job.session_failed.  A      *)
(* statement that fails outside a commit (a SELECT) leaves the session     *)
(* usable and the assignments made so far pending.                         *)
(***************************************************************************)

\* the clock counts half seconds
TicksPerSecond == 2

\* int((completed_at - started_at).total_seconds())
DurationSeconds(started_at, completed_at) ==
    (completed_at - started_at) \div TicksPerSecond

\* 'rate_limit_delay' of _initialize_scrapers: 1.0 and 0.5 seconds
rate_limit_delay(vendor_name) ==
    IF vendor_name = "amazon" THEN TicksPerSecond ELSE TicksPerSecond \div 2

\* BaseScraper.respect_rate_limit: the time it sleeps
respect_rate_limit(vendor_name) ==
    IF rate_limit_delay(vendor_name) > 0 THEN rate_limit_delay(vendor_name)
    ELSE 0

\* the time search_product sleeps: AmazonScraper after every product page
\* it visited, BestBuyScraper once after it parsed the containers it found;
\* neither on the paths that return early
SearchSleep(vendor_name, fetch) ==
    IF fetch.kind # "page" THEN 0
    ELSE IF vendor_name = "amazon"
    THEN Len(fetch.products) * respect_rate_limit(vendor_name)
    ELSE IF fetch.products # <<>> THEN respect_rate_limit(vendor_name)
    ELSE 0

\* the time the request of a search takes: under a tick, or a tick
FetchTicks == {0, 1}

\* the ScraperRun of _start_scraper_run, with the column defaults
NewRun(vendor_id, now) ==
    [vendor_id |-> vendor_id, status |-> "running",
     products_scraped |-> 0, errors_count |-> 0,
     started_at |-> now, completed_at |-> None,
     duration_seconds |-> None, error_details |-> None]

\* the assignments of _complete_scraper_run before it reads started_at
CompletedFields(scraper_run, vendor_results, now) ==
    [scraper_run EXCEPT !.status = "completed",
                        !.products_scraped = vendor_results.products_scraped,
                        !.errors_count = vendor_results.errors,
                        !.completed_at = Some(now)]

\* the assignments of _fail_scraper_run before it reads started_at
FailedFields(scraper_run, error_message, now) ==
    [scraper_run EXCEPT !.status = "failed",
                        !.completed_at = Some(now),
                        !.error_details = Some(error_message)]

\* "if scraper_run.started_at: duration = ...; duration_seconds = int(...)"
WithDuration(scraper_run) ==
    [scraper_run EXCEPT !.duration_seconds =
        Some(DurationSeconds(scraper_run.started_at,
                             Val(scraper_run.completed_at)))]

\* results at the start of run_all_scrapers
EmptyResults ==
    [total_products |-> 0, total_errors |-> 0, vendor_results |-> <<>>]

\* what happened in the job of the current vendor (history only): the
\* fetches and stores that failed, the stores that returned, and whether a
\* call outside the queries and stores raised while the session was usable
NoEvents ==
    [failed_fetches |-> 0, failed_stores |-> 0, stored |-> 0,
     fatal |-> FALSE]

\* before the pass
IdleJob ==
    [pc |-> "idle", v |-> 0, q |-> 0, todo |-> <<>>,
     products_scraped |-> 0, errors |-> 0,
     run_id |-> 0, scraper_run |-> None,
     results |-> EmptyResults, session_failed |-> FALSE,
     events |-> NoEvents, last_call |-> None]

\* the loops of _run_vendor_scraper: the next scraped product of this
\* query, else the next query, else "return"
Advance(j) ==
    IF j.todo # <<>> THEN [j EXCEPT !.pc = "store"]
    ELSE IF j.q < Len(search_queries) THEN [j EXCEPT !.pc = "query", !.q = @ + 1]
    ELSE [j EXCEPT !.pc = "complete"]

\* the loop of run_all_scrapers: the next vendor, else "return results"
NextVendor(j) ==
    IF j.v < Len(scrapers) THEN [j EXCEPT !.pc = "start", !.v = @ + 1]
    ELSE [j EXCEPT !.pc = "done"]

\* run_all_scrapers up to its loop: results, SessionLocal(),
\* _ensure_vendors_exist
run_all_scrapers ==
    /\ job.pc = "idle"
    /\ job' = [job EXCEPT !.pc = "start", !.v = 1]
    /\ UNCHANGED <<products, prices, history, clock, calls, runs, retry,
                   procs, analysis>>

\* scraper_run = self._start_scraper_run(vendor, db), outside any try: when
\* its commit raises the exception leaves run_all_scrapers
start_scraper_run(ok) ==
    /\ job.pc = "start"
    /\ LET now == clock + 1
           run == NewRun(scrapers[job.v], now)
       IN  /\ IF ok /\ ~job.session_failed
              THEN /\ runs' = Append(runs, run)
                   /\ job' = [job EXCEPT !.pc = "query", !.q = 1,
                                         !.todo = <<>>,
                                         !.products_scraped = 0,
                                         !.errors = 0,
                                         !.run_id = Len(runs) + 1,
                                         !.scraper_run = Some(run),
                                         !.events = NoEvents,
                                         !.last_call = None]
              ELSE /\ runs' = runs
                   /\ job' = [job EXCEPT !.pc = "aborted",
                                         !.session_failed = TRUE,
                                         !.events.fatal = TRUE]
           /\ clock' = now
    /\ UNCHANGED <<products, prices, history, calls, retry, procs, analysis>>

\* scraped_products = await scraper.search_product(query): the scrapers
\* catch every exception themselves, so the handler of line 290 never runs.
\* job.last_call is the time the request was sent
run_query(fetch, elapsed) ==
    /\ job.pc = "query"
    /\ LET found == search_product(scrapers[job.v], search_queries[job.q],
                                   fetch)
       IN  job' = Advance([job EXCEPT
                     !.todo = found,
                     !.last_call = Some(clock),
                     !.events.failed_fetches =
                         IF fetch.kind = "page" THEN @ ELSE @ + 1])
    /\ clock' = clock + elapsed + SearchSleep(scrapers[job.v], fetch)
    /\ UNCHANGED <<products, prices, history, calls, runs, retry,
                   procs, analysis>>

\* how a call of _store_product_data ends: it returns, its first query
\* raises, or its final commit raises
StoreOutcomes == {"ok", "query_error", "commit_error"}

\* the catalog after a call of _store_product_data: a product the matcher
\* created is committed by _create_new_product before the price is written
StoreProducts(outcome, res) ==
    CASE outcome = "ok" -> BumpPopularity(res.catalog, res.id)
      [] outcome = "query_error" -> products
      [] outcome = "commit_error" -> res.catalog

\* the prices table after a call of _store_product_data
StorePrices(outcome, pid, vid, obs, now) ==
    LET i == ExistingPrice(prices, pid, vid)
    IN  IF outcome # "ok" THEN prices
        ELSE IF i # 0
             THEN [prices EXCEPT ![i] = StoreUpdatedRow(@, obs, now)]
             ELSE Append(prices, StoreNewRow(pid, vid, obs, now))

\* the inner try of _run_vendor_scraper: products_scraped += 1 when
\* _store_product_data returns, errors += 1 when it raises
CountStore(j, outcome) ==
    IF outcome = "ok"
    THEN [j EXCEPT !.products_scraped = @ + 1, !.events.stored = @ + 1]
    ELSE [j EXCEPT !.errors = @ + 1, !.events.failed_stores = @ + 1,
                   !.session_failed = @ \/ outcome = "commit_error"]

\* self._store_product_data(scraped_product, vendor, db) in the inner try
store_scraped_product(outcome) ==
    /\ job.pc = "store"
    /\ job.session_failed => outcome = "query_error"
    /\ LET item == Head(job.todo)
           now  == clock + 1
           res  == find_matching_product(item.name, products)
       IN  /\ products' = StoreProducts(outcome, res)
           /\ prices' = StorePrices(outcome, res.id, scrapers[job.v],
                                    item.obs, now)
           /\ job' = Advance(CountStore([job EXCEPT !.todo = Tail(@)],
                                        outcome))
           /\ clock' = now
    /\ UNCHANGED <<history, calls, runs, retry, procs, analysis>>

\* how _complete_scraper_run ends: it returns, the load of started_at (an
\* attribute expired by an earlier commit) raises, or its commit raises
CompleteOutcomes == {"ok", "load_error", "commit_error"}

\* results['vendor_results'][vendor_name] = vendor_results;
\* results['total_products'] += vendor_results['products_scraped']
AddVendorResults(results, vendor_name, vendor_results) ==
    [results EXCEPT
        !.vendor_results =
            Append(@, [vendor |-> vendor_name,
                       products_scraped |-> vendor_results.products_scraped,
                       errors |-> vendor_results.errors]),
        !.total_products = @ + vendor_results.products_scraped]

\* self._complete_scraper_run(scraper_run, vendor_results, db) and the two
\* lines after it, inside the try of run_all_scrapers
complete_scraper_run(outcome) ==
    /\ job.pc = "complete"
    /\ job.session_failed => outcome = "commit_error"
    /\ outcome = "load_error" => job.events.stored > 0
    /\ LET now == clock + 1
           vendor_results == [products_scraped |-> job.products_scraped,
                              errors |-> job.errors]
           assigned == CompletedFields(Val(job.scraper_run), vendor_results,
                                       now)
       IN  /\ CASE outcome = "ok" ->
                    /\ runs' = [runs EXCEPT
                                   ![job.run_id] = WithDuration(assigned)]
                    /\ job' = [job EXCEPT
                          !.pc = "cleanup",
                          !.scraper_run = Some(WithDuration(assigned)),
                          !.results = AddVendorResults(@, scrapers[job.v],
                                                       vendor_results)]
                [] outcome = "load_error" ->
                    /\ runs' = runs
                    /\ job' = [job EXCEPT !.pc = "fail",
                                          !.scraper_run = Some(assigned),
                                          !.events.fatal = TRUE]
                [] outcome = "commit_error" ->
                    /\ runs' = runs
                    /\ job' = [job EXCEPT
                          !.pc = "fail",
                          !.scraper_run = Some(runs[job.run_id]),
                          !.session_failed = TRUE,
                          !.events.fatal = @ \/ ~job.session_failed]
           /\ clock' = now
    /\ UNCHANGED <<products, prices, history, calls, retry, procs, analysis>>

\* the handler of run_all_scrapers: self._fail_scraper_run(scraper_run,
\* str(e), db); results['total_errors'] += 1.  When _fail_scraper_run
\* raises, the exception leaves run_all_scrapers
fail_scraper_run(ok) ==
    /\ job.pc = "fail"
    /\ job.session_failed => ~ok
    /\ LET now == clock + 1
           assigned == WithDuration(FailedFields(Val(job.scraper_run),
                                                 "error", now))
       IN  /\ IF ok
              THEN /\ runs' = [runs EXCEPT ![job.run_id] = assigned]
                   /\ job' = [job EXCEPT !.pc = "cleanup",
                                         !.scraper_run = Some(assigned),
                                         !.results.total_errors = @ + 1]
              ELSE /\ runs' = runs
                   /\ job' = [job EXCEPT
                          !.pc = "aborted",
                          !.session_failed = TRUE,
                          !.events.fatal = @ \/ ~job.session_failed]
           /\ clock' = now
    /\ UNCHANGED <<products, prices, history, calls, retry, procs, analysis>>

\* "if hasattr(scraper, 'quit_selenium'): scraper.quit_selenium()", outside
\* any try: when driver.quit() raises the exception leaves run_all_scrapers
quit_selenium(ok) ==
    /\ job.pc = "cleanup"
    /\ ~HasQuitSelenium(scrapers[job.v]) => ok
    /\ job' = IF ok THEN NextVendor(job)
              ELSE [job EXCEPT !.pc = "aborted", !.events.fatal = TRUE]
    /\ UNCHANGED <<products, prices, history, clock, calls, runs, retry,
                   procs, analysis>>

-----------------------------------------------------------------------------
(* Live runner: LiveScraperRunner.scrape_vendor (run_live_scrapers.py) *)

\* number of runs of the live runner in one behaviour
MaxLiveRuns == 2

\* common_brands of LiveScraperRunner._extract_brand
live_common_brands ==
    common_brands \o <<"MacBook", "iPad", "iPhone", "AirPods">>

\* "word.lower() == brand.lower() or brand.lower() in word.lower()": among
\* the words of the names here no brand is a proper part of a word
LiveBrandMatches(word, brand) == Lower(word) = Lower(brand)

\* LiveScraperRunner._extract_brand from word w on
RECURSIVE LiveBrandLoop(_, _)
LiveBrandLoop(name_words, w) ==
    IF w > Len(name_words) THEN None
    ELSE LET hits == {b \in 1..Len(live_common_brands) :
                         LiveBrandMatches(name_words[w],
                                          live_common_brands[b])}
         IN  IF hits # {}
             THEN Some(live_common_brands[
                          CHOOSE b \in hits : \A c \in hits : b <= c])
             ELSE LiveBrandLoop(name_words, w + 1)

live_extract_brand(product_name) ==
    LET name_words == NameWords(product_name)
    IN  IF LiveBrandLoop(name_words, 1) # None
        THEN Val(LiveBrandLoop(name_words, 1))
        ELSE IF name_words # <<>> THEN name_words[1]
        ELSE "Unknown"

\* LiveScraperRunner._determine_category(query)
live_determine_category(query) ==
    IF \E w \in {"laptop", "macbook", "notebook"} : QueryContains(query, w)
    THEN "laptops"
    ELSE IF \E w \in {"headphone", "earphone", "airpods"} :
                QueryContains(query, w)
    THEN "headphones"
    ELSE IF \E w \in {"speaker", "soundbar"} : QueryContains(query, w)
    THEN "speakers"
    ELSE "laptops"

\* the loop of find_or_create_product over the first n products: only
\* fuzz.ratio is compared, with the threshold 80 written in the code
RECURSIVE LiveMatchLoop(_, _, _)
LiveMatchLoop(scraped_name, catalog, n) ==
    IF n = 0 THEN <<0, 0>>
    ELSE LET prev  == LiveMatchLoop(scraped_name, catalog, n - 1)
             score == FuzzScores(scraped_name, catalog[n].name)[1]
         IN  IF score > prev[2] /\ score >= similarity_threshold
             THEN <<n, score>> ELSE prev

\* LiveScraperRunner.find_or_create_product(result.name, result.brand,
\* category) with result.brand = None
find_or_create_product(scraped_name, category_name, catalog) ==
    LET m == LiveMatchLoop(scraped_name, catalog, Len(catalog))[1]
    IN  IF m # 0
        THEN [catalog |-> catalog, id |-> m]
        ELSE [catalog |->
                Append(catalog,
                       [name |-> scraped_name,
                        brand |-> live_extract_brand(scraped_name),
                        category_id |-> CategoryByName(category_name),
                        popularity_score |-> 1]),
              id |-> Len(catalog) + 1]

\* discount_percentage of update_product_price: only when original_price
\* is above price, rounded to two places
LiveDiscount(obs) ==
    IF Truthy(obs.original_price) /\ obs.price # 0
       /\ Val(obs.original_price) > obs.price
       /\ StoreDiscountValue(obs) # 0
    THEN Some(StoreDiscountValue(obs))
    ELSE None

\* the Price row update_product_price writes (variation_details is not
\* written: kept on update, NULL ("null") on insert)
LivePriceRow(pid, vid, obs, variation_details, now) ==
    [product_id          |-> pid,
     vendor_id           |-> vid,
     price               |-> obs.price,
     original_price      |-> IF Truthy(obs.original_price)
                             THEN obs.original_price ELSE None,
     discount_percentage |-> LiveDiscount(obs),
     stock_status        |-> obs.stock_status,
     product_url         |-> obs.product_url,
     variation_details   |-> variation_details,
     last_updated_at     |-> now]

\* LiveScraperRunner.update_product_price: the prices table afterwards
update_product_price(rows, pid, vid, obs, now) ==
    LET i == ExistingPrice(rows, pid, vid)
    IN  IF i # 0
        THEN [rows EXCEPT ![i] = LivePriceRow(pid, vid, obs,
                                              @.variation_details, now)]
        ELSE Append(rows, LivePriceRow(pid, vid, obs, "null", now))

\* results[:3]
FirstThree(results) ==
    SubSeq(results, 1, IF Len(results) < 3 THEN Len(results) ELSE 3)

\* the loop "for result in results[:3]" of scrape_vendor; st holds the
\* tables, the local products_scraped and the time
RECURSIVE LiveStoreResults(_, _, _, _)
LiveStoreResults(results, vendor_name, category_name, st) ==
    IF results = <<>> THEN st
    ELSE LET item == Head(results)
             res  == find_or_create_product(item.name, category_name,
                                            st.products)
             now  == st.now + 1
         IN  LiveStoreResults(Tail(results), vendor_name, category_name,
                 [products |-> res.catalog,
                  prices |-> update_product_price(st.prices, res.id,
                                                  vendor_name, item.obs, now),
                  products_scraped |-> st.products_scraped + 1,
                  now |-> now])

\* the loop "for query in search_queries" of scrape_vendor from query q
\* on, with "await asyncio.sleep(2)" after each query
RECURSIVE LiveQueries(_, _, _, _)
LiveQueries(q, vendor_name, fetches, st) ==
    IF q > Len(search_queries) THEN st
    ELSE LET results == search_product(vendor_name, search_queries[q],
                                       fetches[q])
             after == LiveStoreResults(
                          FirstThree(results), vendor_name,
                          live_determine_category(search_queries[q]), st)
         IN  LiveQueries(q + 1, vendor_name, fetches,
                         [after EXCEPT !.now = @ + 2 * TicksPerSecond])

\* LiveScraperRunner.scrape_vendor(vendor_name, search_queries): the run is
\* created 'running' and, after the queries, set 'completed' with its
\* counts and completed_at (duration_seconds is never assigned)
scrape_vendor(vendor_name, fetches) ==
    /\ Len(runs) < MaxLiveRuns
    /\ LET started_at == clock + 1
           st == LiveQueries(1, vendor_name, fetches,
                             [products |-> products, prices |-> prices,
                              products_scraped |-> 0, now |-> started_at])
           completed_at == st.now + 1
       IN  /\ products' = st.products
           /\ prices' = st.prices
           /\ runs' = Append(runs,
                  [NewRun(vendor_name, started_at) EXCEPT
                      !.status = "completed",
                      !.products_scraped = st.products_scraped,
                      !.errors_count = 0,
                      !.completed_at = Some(completed_at)])
           /\ clock' = completed_at
    /\ UNCHANGED <<history, calls, job, retry, procs, analysis>>

-----------------------------------------------------------------------------
(* Production runner: ProductionScraperRunner.scrape_all_vendors_for_product *)

vendors_to_scrape == <<"amazon", "bestbuy", "walmart">>

\* "scraper.quit()": AmazonScraper, BestBuyScraper, WalmartScraper and
\* BaseScraper define no attribute quit, so the call raises AttributeError
ScraperHasQuit(vendor_name) == FALSE

\* what search_product does for one vendor: a first result, no result, or
\* an exception
VendorOutcomes(product_name) ==
    {[kind |-> "results", name |-> product_name, obs |-> ObsA],
     [kind |-> "results", name |-> product_name,
      obs |-> MockObs(29999, None, "url2")],
     [kind |-> "empty"], [kind |-> "exception"]}

\* product_data[vendor_name] after the body of the loop over the vendors:
\* the entry of the first result or the 'unavailable' entry, replaced by the
\* error entry of the except branch when the body raises
VendorData(vendor_name, product_name, outcome) ==
    IF outcome.kind = "exception" \/ ~ ScraperHasQuit(vendor_name)
    THEN [name |-> product_name,
          obs |-> [price |-> 0, original_price |-> None,
                   stock_status |-> "unavailable",
                   product_url |-> "vendor home", variations |-> "var0"]]
    ELSE IF outcome.kind = "results"
    THEN [name |-> outcome.name, obs |-> outcome.obs]
    ELSE [name |-> product_name,
          obs |-> [price |-> 0, original_price |-> None,
                   stock_status |-> "unavailable",
                   product_url |-> "vendor search", variations |-> "var0"]]

\* best_data: the first entry with price > 0, else the first entry
BestData(product_data) ==
    IF \E v \in DOMAIN product_data : product_data[v].obs.price > 0
    THEN product_data[CHOOSE v \in DOMAIN product_data :
                        /\ product_data[v].obs.price > 0
                        /\ \A u \in DOMAIN product_data :
                              product_data[u].obs.price > 0 => v <= u]
    ELSE product_data[1]

RECURSIVE SumRowPrices(_, _)
SumRowPrices(rows, S) ==
    IF S = {} THEN 0
    ELSE LET i == CHOOSE x \in S : TRUE
         IN  rows[i].price + SumRowPrices(rows, S \ {i})

\* estimate_price_for_product: the mean of the in-stock prices of the
\* product plus 10%, else a default by the product's name
estimate_price_for_product(rows, pid, product_name) ==
    LET S == {i \in 1..Len(rows) :
                 rows[i].product_id = pid /\ rows[i].stock_status = "in_stock"}
    IN  IF S # {}
        THEN RoundHalfEven(SumRowPrices(rows, S) * 11, Cardinality(S) * 10)
        ELSE IF product_name = SonyB \/ product_name = SonyC THEN 34999
        ELSE IF product_name = Jbl THEN 14995
        ELSE 19999

\* create_unavailable_price_record(product, vendor_name, data)
create_unavailable_price_record(rows, pid, product_name, vid, obs, now) ==
    IF ExistingPrice(rows, pid, vid) # 0 THEN rows
    ELSE Append(rows,
           LivePriceRow(pid, vid,
               [obs EXCEPT !.price =
                    estimate_price_for_product(rows, pid, product_name)],
               "null", now))

\* the loop "for vendor_name, data in product_data.items()"
RECURSIVE UpdateAllVendors(_, _, _, _, _, _)
UpdateAllVendors(rows, pid, product_name, product_data, v, now) ==
    IF v > Len(product_data) THEN rows
    ELSE UpdateAllVendors(
             IF product_data[v].obs.price > 0
             THEN update_product_price(rows, pid, vendors_to_scrape[v],
                                       product_data[v].obs, now)
             ELSE create_unavailable_price_record(rows, pid, product_name,
                      vendors_to_scrape[v], product_data[v].obs, now),
             pid, product_name, product_data, v + 1, now)

\* add_brand_website_price(product, reference_data): the prices table
\* afterwards, and whether float(None) raised TypeError
\* (reference_data.get('original_price', ...) finds the key with value None)
add_brand_website_price(rows, pid, product_name, reference_data, now) ==
    IF reference_data.obs.original_price = None
    THEN [rows |-> rows, raised |-> TRUE]
    ELSE LET msrp == Val(reference_data.obs.original_price)
             brand_price ==
                 Max(IF msrp = 0
                     THEN estimate_price_for_product(rows, pid, product_name)
                     ELSE msrp,
                     RoundHalfEven(reference_data.obs.price * 105, 100))
         IN  [rows |->
                 IF ExistingPrice(rows, pid, "brand") # 0 THEN rows
                 ELSE Append(rows,
                        LivePriceRow(pid, "brand",
                            [price |-> brand_price, original_price |-> None,
                             stock_status |-> "in_stock",
                             product_url |-> "brand url",
                             variations |-> "var0"],
                            "null", now)),
              raised |-> FALSE]

\* ProductionScraperRunner.scrape_all_vendors_for_product(product_name,
\* category); outcomes[v] is what the search of vendor v does
scrape_all_vendors_for_product(product_name, category, outcomes) ==
    /\ clock < MaxOps
    /\ LET now == clock + 1
           product_data ==
               [v \in DOMAIN vendors_to_scrape |->
                   VendorData(vendors_to_scrape[v], product_name, outcomes[v])]
           best_data == BestData(product_data)
           res == find_or_create_product(best_data.name, category, products)
           name == res.catalog[res.id].name
           updated == UpdateAllVendors(prices, res.id, name, product_data,
                                       1, now)
           brand == add_brand_website_price(updated, res.id, name,
                                            best_data, now)
       IN  /\ products' = res.catalog
           /\ prices' = brand.rows
           /\ clock' = now
           /\ calls' = Append(calls,
                  [op |-> "scrape_all_vendors_for_product",
                   product_id |-> res.id, name |-> product_name,
                   raised |-> brand.raised])
    /\ UNCHANGED <<history, runs, job, retry, procs, analysis>>

-----------------------------------------------------------------------------
(* Retry policy: ScraperErrorHandler.handle_request_error (scrapers/base.py) *)

\* largest max_retries a scraper is configured with
MaxRetriesBound == 5

\* the errors an operation fails with
Errors == {"timeout", "status"}

\* "if attempt <= self.max_retries"
ShouldRetryInclusive(attempt, max_retries) == attempt <= max_retries

\* "if attempt < self.max_retries"
ShouldRetry(attempt, max_retries) == attempt < max_retries

\* "delay = 2 ** attempt", in seconds
BackoffDelay(attempt) == 2 ^ attempt

\* no retry loop is running
IdleRetry ==
    [pc |-> "idle", max_retries |-> 0, first_attempt |-> 0, attempt |-> 0,
     retries |-> 0, last_delay |-> None, slept |-> 0,
     last_error |-> None, result |-> "none"]

\* a loop starts: ScraperErrorHandler(max_retries=config.get('max_retries',
\* 3)), attempts counted from first_attempt
execute(max_retries, first_attempt) ==
    /\ retry.pc = "idle"
    /\ retry' = [retry EXCEPT !.pc = "try", !.max_retries = max_retries,
                              !.first_attempt = first_attempt,
                              !.attempt = first_attempt]
    /\ UNCHANGED <<products, prices, history, clock, calls, runs, job,
                   procs, analysis>>

\* the wrapped operation returns
operation_succeeds ==
    /\ retry.pc = "try"
    /\ retry' = [retry EXCEPT !.pc = "done", !.result = "success"]
    /\ UNCHANGED <<products, prices, history, clock, calls, runs, job,
                   procs, analysis>>

\* the wrapped operation raises
operation_fails(error) ==
    /\ retry.pc = "try"
    /\ retry' = [retry EXCEPT !.pc = "failed", !.last_error = Some(error)]
    /\ UNCHANGED <<products, prices, history, clock, calls, runs, job,
                   procs, analysis>>

\* await error_handler.handle_request_error(error, attempt): True after
\* sleeping the delay, and the loop tries again with attempt + 1; False,
\* and the loop gives up with the last error
handle_request_error ==
    /\ retry.pc = "failed"
    /\ IF ShouldRetry(retry.attempt, retry.max_retries)
       THEN retry' = [retry EXCEPT
                !.pc = "try",
                !.last_delay = Some(BackoffDelay(retry.attempt)),
                !.slept = @ + BackoffDelay(retry.attempt),
                !.retries = @ + 1,
                !.attempt = @ + 1]
       ELSE retry' = [retry EXCEPT !.pc = "done", !.result = "failure"]
    /\ UNCHANGED <<products, prices, history, clock, calls, runs, job,
                   procs, analysis>>

-----------------------------------------------------------------------------
(* Pricing engine: PricingEngine.calculate_price_trends *)

(***************************************************************************)
(* float(p.price) is the price in cents here.  The percentages are         *)
(* compared with 2 and -2 by cross-multiplication; for the prices of       *)
(* TrendPrices the float arithmetic of the code gives the same answers.    *)
(***************************************************************************)

\* timedelta(days=days) in ticks of the clock
timedelta(days) == days * 86400 * TicksPerSecond

\* the entry of get_price_history for a Price row
HistoryEntry(p) ==
    [vendor_id |-> p.vendor_id, price |-> p.price,
     timestamp |-> p.last_updated_at]

\* .order_by(Price.last_updated_at.desc()) over the rows with index in S
RECURSIVE OrderDesc(_, _)
OrderDesc(rows, S) ==
    IF S = {} THEN <<>>
    ELSE LET i == CHOOSE x \in S :
                    \A y \in S :
                        \/ rows[y].last_updated_at < rows[x].last_updated_at
                        \/ /\ rows[y].last_updated_at = rows[x].last_updated_at
                           /\ x <= y
         IN  <<HistoryEntry(rows[i])>> \o OrderDesc(rows, S \ {i})

\* variant: the entries are read from the price_history table as well
get_price_history_archived(rows, archive, product_id, now, days) ==
    OrderDesc(rows,
        {i \in 1..Len(rows) : rows[i].product_id = product_id})
    \o [k \in 1..Len(archive) |->
           [vendor_id |-> archive[k].vendor_id,
            price |-> archive[k].price,
            timestamp |-> archive[k].recorded_at]]

\* PricingEngine.get_price_history(product_id, days): the rows of the
\* Price table (rows) of the product updated since the cutoff, newest
\* first; the price_history table (archive) is not read
get_price_history(rows, archive, product_id, now, days) ==
    OrderDesc(rows,
        {i \in 1..Len(rows) :
            /\ rows[i].product_id = product_id
            /\ rows[i].last_updated_at >= now - timedelta(days)})

\* "if abs(percentage_change) < 2 ... elif percentage_change > 0 ... else"
\* with percentage_change = (price_change / older_price) * 100
VendorTrend(price_change, older_price) ==
    IF Abs(price_change) * 100 < 2 * older_price THEN "stable"
    ELSE IF price_change > 0 THEN "increasing"
    ELSE "decreasing"

\* vendor_trends[vendor_id]: vendor_history sorted by timestamp, its last
\* entry against its first
VendorTrendEntry(price_history, vendor_id) ==
    LET S == {i \in 1..Len(price_history) :
                 price_history[i].vendor_id = vendor_id}
        older == CHOOSE x \in S : \A y \in S :
                    \/ price_history[x].timestamp < price_history[y].timestamp
                    \/ /\ price_history[x].timestamp
                              = price_history[y].timestamp
                       /\ x <= y
        recent == CHOOSE x \in S : \A y \in S :
                    \/ price_history[y].timestamp < price_history[x].timestamp
                    \/ /\ price_history[x].timestamp
                              = price_history[y].timestamp
                       /\ y <= x
        price_change == price_history[recent].price
                            - price_history[older].price
    IN  [trend |-> VendorTrend(price_change, price_history[older].price),
         price_change |-> price_change,
         current_price |-> price_history[recent].price,
         previous_price |-> price_history[older].price,
         data_points |-> Cardinality(S)]

\* price_history[-10:] and price_history[:10]
TrendWindow == 10

RECURSIVE SumPrices(_)
SumPrices(entries) ==
    IF entries = <<>> THEN 0
    ELSE Head(entries).price + SumPrices(Tail(entries))

\* "increasing" if overall_change > 2 else "decreasing" if overall_change
\* < -2 else "stable", with overall_change = ((recent_avg - older_avg) /
\* older_avg) * 100 and the averages sum/len of the two windows
OverallDirection(all_recent_prices, all_older_prices) ==
    LET sr == SumPrices(all_recent_prices)
        nr == Len(all_recent_prices)
        so == SumPrices(all_older_prices)
        no == Len(all_older_prices)
        diff == (sr * no - so * nr) * 100
    IN  IF diff > 2 * so * nr THEN "increasing"
        ELSE IF diff < -2 * so * nr THEN "decreasing"
        ELSE "stable"

\* PricingEngine.calculate_price_trends(price_history)
calculate_price_trends(price_history) ==
    LET n == Len(price_history)
    IN  IF n < 2 THEN [trend |-> "insufficient_data"]
        ELSE [vendor_trends |->
                 [v \in {price_history[i].vendor_id : i \in
                            {j \in 1..n :
                                \E k \in 1..n :
                                    /\ k # j
                                    /\ price_history[k].vendor_id
                                          = price_history[j].vendor_id}}
                     |-> VendorTrendEntry(price_history, v)],
              overall_market_trend |->
                 [direction |->
                     OverallDirection(
                         SubSeq(price_history,
                                Max(1, n - TrendWindow + 1), n),
                         SubSeq(price_history, 1,
                                IF n < TrendWindow THEN n ELSE TrendWindow))],
              analysis_period_days |-> 30]

\* PricingEngine.analyze_product_pricing(product_id): its price_history
\* and price_trends
price_analysis(rows, archive, product_id, now) ==
    IF \A i \in 1..Len(rows) : rows[i].product_id # product_id
    THEN [error |-> "No prices found"]
    ELSE LET price_history ==
                 get_price_history(rows, archive, product_id, now, 30)
         IN  [product_id |-> product_id,
              price_history |-> price_history,
              price_trends |-> calculate_price_trends(price_history)]

analyze_product_pricing(product_id) ==
    /\ analysis' = Some(price_analysis(prices, history, product_id, clock))
    /\ UNCHANGED <<products, prices, history, clock, calls, runs, job, retry,
                   procs>>

-----------------------------------------------------------------------------
(* Retention: PriceService.cleanup_old_history *)

\* variant: a row recorded exactly at the cutoff is pruned as well
OlderThanCutoffInclusive(recorded_at, cutoff_date) == recorded_at <= cutoff_date

\* PriceHistory.recorded_at < cutoff_date
OlderThanCutoff(recorded_at, cutoff_date) == recorded_at < cutoff_date

\* PriceService.cleanup_old_history(days_to_keep); ok = FALSE is a delete
\* or commit that raises: the session is rolled back and 0 is returned
cleanup_old_history(days_to_keep, ok) ==
    /\ clock < MaxOps
    /\ LET now == clock + 1
           cutoff_date == now - timedelta(days_to_keep)
           deleted == {k \in 1..Len(history) :
                          OlderThanCutoff(history[k].recorded_at, cutoff_date)}
           Kept(h) == ~ OlderThanCutoff(h.recorded_at, cutoff_date)
       IN  /\ history' = IF ok THEN SelectSeq(history, Kept) ELSE history
           /\ clock' = now
           /\ calls' = Append(calls,
                  [op |-> "cleanup_old_history", ok |-> ok,
                   cutoff_date |-> cutoff_date,
                   deleted_count |-> IF ok THEN Cardinality(deleted) ELSE 0])
    /\ UNCHANGED <<products, prices, runs, job, retry, procs, analysis>>

-----------------------------------------------------------------------------
(* Two passes of run_all_scrapers at the same time *)

(***************************************************************************)
(* run_scrapers.py is a script: nothing keeps it from being started while  *)
(* another pass is under way.  Each pass has a Session of its own, and the *)
(* passes interleave at their calls into the database: the reads of        *)
(* _store_product_data and its commit are separate steps here.             *)
(***************************************************************************)

Passes == {1, 2}

\* number of products one pass stores
MaxPassStores == 1

\* the scraped products the passes store: the same name, two observations
PassItems == {ItemA, [name |-> SonyA, obs |-> ObsB]}

\* a pass before it starts
IdlePass ==
    [pc |-> "start", v |-> 1, run_id |-> 0, products_scraped |-> 0,
     stored |-> 0, loaded |-> None]

\* scraper_run = self._start_scraper_run(vendor, db) of pass p: no check
\* for a run of the vendor that is still 'running'
pass_start_scraper_run(p) ==
    /\ procs[p].pc = "start"
    /\ runs' = Append(runs, NewRun(scrapers[procs[p].v], clock + 1))
    /\ procs' = [procs EXCEPT ![p].pc = "run",
                              ![p].run_id = Len(runs) + 1,
                              ![p].products_scraped = 0]
    /\ clock' = clock + 1
    /\ UNCHANGED <<products, prices, history, calls, job, retry, analysis>>

\* _store_product_data of pass p up to its commit: the matcher (which
\* commits a product it creates), the query for the existing Price, and
\* the assignments in the Session, popularity_score += 1 on the value read
pass_store_read(p, item) ==
    /\ procs[p].pc = "run"
    /\ procs[p].stored < MaxPassStores
    /\ LET res == find_matching_product(item.name, products)
           vid == scrapers[procs[p].v]
       IN  /\ products' = res.catalog
           /\ procs' = [procs EXCEPT
                 ![p].pc = "commit",
                 ![p].loaded = Some(
                     [product_id |-> res.id,
                      popularity_score |->
                          res.catalog[res.id].popularity_score + 1,
                      existing_price |->
                          ExistingPrice(prices, res.id, vid),
                      obs |-> item.obs])]
    /\ UNCHANGED <<prices, history, clock, calls, runs, job, retry,
                   analysis>>

\* db.commit() of _store_product_data of pass p: the UPDATE or INSERT of
\* the Price and the UPDATE of the product with the value assigned
pass_store_commit(p) ==
    /\ procs[p].pc = "commit"
    /\ LET w   == Val(procs[p].loaded)
           vid == scrapers[procs[p].v]
           now == clock + 1
       IN  /\ products' = [products EXCEPT
                 ![w.product_id].popularity_score = w.popularity_score]
           /\ prices' =
                 IF w.existing_price # 0
                 THEN [prices EXCEPT ![w.existing_price] =
                          StoreUpdatedRow(@, w.obs, now)]
                 ELSE Append(prices,
                             StoreNewRow(w.product_id, vid, w.obs, now))
           /\ procs' = [procs EXCEPT
                 ![p].pc = "run",
                 ![p].loaded = None,
                 ![p].stored = @ + 1,
                 ![p].products_scraped = @ + 1]
           /\ clock' = now
    /\ UNCHANGED <<history, calls, runs, job, retry, analysis>>

\* self._complete_scraper_run(scraper_run, vendor_results, db) of pass p,
\* then the next vendor
pass_complete_scraper_run(p) ==
    /\ procs[p].pc = "run"
    /\ LET now == clock + 1
           vendor_results ==
               [products_scraped |-> procs[p].products_scraped, errors |-> 0]
       IN  /\ runs' = [runs EXCEPT ![procs[p].run_id] =
                 WithDuration(CompletedFields(@, vendor_results, now))]
           /\ procs' = [procs EXCEPT
                 ![p].pc = IF procs[p].v < Len(scrapers) THEN "start"
                           ELSE "done",
                 ![p].v = IF procs[p].v < Len(scrapers) THEN @ + 1 ELSE @]
           /\ clock' = now
    /\ UNCHANGED <<products, prices, history, calls, job, retry, analysis>>

-----------------------------------------------------------------------------
(* Specification of the ledger *)

Init ==
    /\ products = <<>>
    /\ prices = <<>>
    /\ history = <<>>
    /\ clock = 0
    /\ calls = <<>>
    /\ runs = <<>>
    /\ job = IdleJob
    /\ retry = IdleRetry
    /\ procs = [p \in Passes |-> IdlePass]
    /\ analysis = None

Next ==
    \/ \E pid \in 1..MaxOps, vid \in Vendors, obs \in Observations :
          update_or_create_price(pid, vid, obs)
    \/ \E vid \in Vendors, name \in StoreNames, obs \in Observations :
          store_product_data(vid, name, obs)

Spec == Init /\ [][Next]_vars

-----------------------------------------------------------------------------
(* Specification of the ledger of one product with its trend analysis *)

NextLedgerTrend ==
    \/ \E vid \in Vendors, obs \in Observations :
          update_or_create_price(1, vid, obs)
    \/ \E vid \in Vendors, obs \in Observations :
          store_product_data(vid, SonyA, obs)
    \/ analyze_product_pricing(1)

SpecLedgerTrend == Init /\ [][NextLedgerTrend]_vars

-----------------------------------------------------------------------------
(* Specification of the ledger of one pair with retention *)

\* recorded_at of the PriceHistory rows present at the start, in ticks
\* before time 0: 100 days, 90 days, one and two ticks less than 90 days,
\* 10 days
HistoryAges ==
    <<-timedelta(100), -timedelta(90), 1 - timedelta(90), 2 - timedelta(90),
      -timedelta(10)>>

\* the archive of the pair (1, amazon) whose rows were recorded at the
\* times HistoryAges[k], k in S: successive archived prices differ by 0.02
RECURSIVE ArchiveOf(_, _)
ArchiveOf(S, next_obs) ==
    IF S = {} THEN <<>>
    ELSE LET k == CHOOSE x \in S : \A y \in S : y <= x
             obs == IF next_obs = ObsA THEN ObsC ELSE ObsA
         IN  Append(ArchiveOf(S \ {k}, obs),
                    archive_price_to_history(
                        PsNewRow(1, "amazon", obs, HistoryAges[k]), 1))

InitRetention ==
    /\ products = <<create_new_product(SonyA)>>
    /\ prices = <<PsNewRow(1, "amazon", ObsA, -timedelta(1))>>
    /\ \E S \in SUBSET DOMAIN HistoryAges : history = ArchiveOf(S, ObsA)
    /\ clock = 0
    /\ calls = <<>>
    /\ runs = <<>>
    /\ job = IdleJob
    /\ retry = IdleRetry
    /\ procs = [p \in Passes |-> IdlePass]
    /\ analysis = None

NextRetention ==
    \/ \E obs \in Observations : update_or_create_price(1, "amazon", obs)
    \/ \E days_to_keep \in {30, 90}, ok \in BOOLEAN :
          cleanup_old_history(days_to_keep, ok)

SpecRetention == InitRetention /\ [][NextRetention]_vars

-----------------------------------------------------------------------------
(* Specification of the production runner *)

NextCoverage ==
    \/ \E product_name \in {SonyA, Jbl}, category \in {"headphones", "speakers"} :
          \E outcomes \in [DOMAIN vendors_to_scrape
                              -> VendorOutcomes(product_name)] :
              scrape_all_vendors_for_product(product_name, category, outcomes)
    \/ \E vid \in Vendors, obs \in {ObsA, ObsC} :
          store_product_data(vid, SonyA, obs)

SpecCoverage == Init /\ [][NextCoverage]_vars

-----------------------------------------------------------------------------
(* Specification of the matcher alone *)

\* ProductMatcher.find_matching_product(scraped_product, db), called on its
\* own with a scraped name
resolve(name) ==
    /\ clock < MaxResolves
    /\ LET res == find_matching_product(name, products)
       IN  /\ products' = res.catalog
           /\ calls' = Append(calls, [op |-> "find_matching_product",
                                       product_id |-> res.id, vendor_id |-> "",
                                       name |-> name, obs |-> ObsA])
    /\ clock' = clock + 1
    /\ UNCHANGED <<prices, history, runs, job, retry, procs, analysis>>

NextMatch == \E name \in Names : resolve(name)

SpecMatch == Init /\ [][NextMatch]_vars

-----------------------------------------------------------------------------
(* Specification of one orchestration pass *)

NextRun ==
    \/ run_all_scrapers
    \/ \E ok \in BOOLEAN : start_scraper_run(ok)
    \/ \E fetch \in Fetches, elapsed \in FetchTicks : run_query(fetch, elapsed)
    \/ \E outcome \in StoreOutcomes : store_scraped_product(outcome)
    \/ \E outcome \in CompleteOutcomes : complete_scraper_run(outcome)
    \/ \E ok \in BOOLEAN : fail_scraper_run(ok)
    \/ \E ok \in BOOLEAN : quit_selenium(ok)

SpecRun == Init /\ [][NextRun]_vars

-----------------------------------------------------------------------------
(* Specification of the live runner *)

NextLive ==
    \E vendor_name \in Vendors, fetches \in [1..Len(search_queries) -> Fetches] :
        scrape_vendor(vendor_name, fetches)

SpecLive == Init /\ [][NextLive]_vars

-----------------------------------------------------------------------------
(* Specification of the store path driven with malformed observations *)

\* price 0.00 (the "unavailable" entries of scrape_all_vendors.py) and a
\* negative price
ObsZero == [price |-> 0, original_price |-> None,
            stock_status |-> "out_of_stock", product_url |-> "url1",
            variations |-> "var1"]
ObsNegative == [price |-> -100, original_price |-> None,
                stock_status |-> "in_stock", product_url |-> "url2",
                variations |-> "var1"]

BoundaryNames == {SonyA, EmptyName}

BoundaryObservations == {ObsA, ObsZero, ObsNegative}

NextBoundary ==
    \E vid \in Vendors, name \in BoundaryNames,
       obs \in BoundaryObservations :
        store_product_data(vid, name, obs)

SpecBoundary == Init /\ [][NextBoundary]_vars

-----------------------------------------------------------------------------
(* Specification of two passes at the same time *)

NextOverlap ==
    \E p \in Passes :
        \/ pass_start_scraper_run(p)
        \/ \E item \in PassItems : pass_store_read(p, item)
        \/ pass_store_commit(p)
        \/ pass_complete_scraper_run(p)

SpecOverlap == Init /\ [][NextOverlap]_vars

-----------------------------------------------------------------------------
(* Specification of the trend analysis over a Price table *)

\* largest number of Price rows of the product
MaxPoints == 12

\* prices of the rows: 100.00 and 120.00
TrendPrices == {10000, 12000}

\* vendors of the rows: the four of _ensure_vendors_exist and further
\* rows of the vendors table
TrendVendors ==
    <<"amazon", "bestbuy", "walmart", "brand", "vendor5", "vendor6",
      "vendor7", "vendor8", "vendor9", "vendor10", "vendor11", "vendor12",
      "vendor13", "vendor14">>

\* a Price table of one product: row i belongs to vendor i and was written
\* at time i
TrendTable(price_of) ==
    [i \in DOMAIN price_of |->
        StoreNewRow(1, TrendVendors[i], MockObs(price_of[i], None, "url1"), i)]

InitTrend ==
    /\ products = <<create_new_product(SonyA)>>
    /\ \E n \in 0..MaxPoints : \E price_of \in [1..n -> TrendPrices] :
          /\ prices = TrendTable(price_of)
          /\ clock = n
    /\ history = <<>>
    /\ calls = <<>>
    /\ runs = <<>>
    /\ job = IdleJob
    /\ retry = IdleRetry
    /\ procs = [p \in Passes |-> IdlePass]
    /\ analysis = None

NextTrend == \E product_id \in {1, 2} : analyze_product_pricing(product_id)

SpecTrend == InitTrend /\ [][NextTrend]_vars

-----------------------------------------------------------------------------
(* Specification of a retry loop *)

NextRetry ==
    \/ \E max_retries \in 0..MaxRetriesBound, first_attempt \in {0, 1} :
          execute(max_retries, first_attempt)
    \/ operation_succeeds
    \/ \E error \in Errors : operation_fails(error)
    \/ handle_request_error

SpecRetry == Init /\ [][NextRetry]_vars

\* the event loop runs every step of the retry loop that is ready
SpecRetryFair == SpecRetry /\ WF_vars(NextRetry)

-----------------------------------------------------------------------------
(* Properties *)

ApplyOps == {"update_or_create_price", "store_product_data"}

\* the rows of a table for one (product, vendor) pair
PairRows(rows, pid, vid) ==
    {i \in 1..Len(rows) : rows[i].product_id = pid /\ rows[i].vendor_id = vid}

\* a step that makes a call, and the call it makes
Stepped == Len(calls') = Len(calls) + 1
ThisCall == calls'[Len(calls')]

\* C1: after any sequence of ledger applies there is at most one Price row
\* per (product_id, vendor_id) pair.
C1_OnePricePerPair ==
    \A i, j \in 1..Len(prices) :
        (/\ prices[i].product_id = prices[j].product_id
         /\ prices[i].vendor_id = prices[j].vendor_id) => i = j

\* a pair was stored by the orchestrator and then applied again by the
\* price service
C1_Witness ==
    \E a, b \in 1..Len(calls) :
        /\ a < b
        /\ calls[a].op = "store_product_data"
        /\ calls[b].op = "update_or_create_price"
        /\ calls[a].product_id = calls[b].product_id
        /\ calls[a].vendor_id = calls[b].vendor_id
        /\ Cardinality(PairRows(prices, calls[a].product_id,
                                calls[a].vendor_id)) = 1

\* C2: update_or_create_price adds exactly one PriceHistory row when the
\* pair has a Price whose price differs from the new price by more than
\* 0.01, and adds none otherwise (smaller difference, or no Price yet).
C2_HistoryIffMaterial ==
    [][ (Stepped /\ ThisCall.op = "update_or_create_price") =>
          LET c == ThisCall
              material ==
                \E i \in PairRows(prices, c.product_id, c.vendor_id) :
                    Abs(prices[i].price - c.obs.price) > 1
          IN  /\ Len(history') = Len(history) + (IF material THEN 1 ELSE 0)
              /\ SubSeq(history', 1, Len(history)) = history ]_vars

\* the second call is a price-service apply that archived the first value
C2_Witness ==
    /\ Len(calls) = 2
    /\ calls[2].op = "update_or_create_price"
    /\ Len(history) = 1
    /\ Abs(history[1].price - calls[2].obs.price) > 1

\* C3: when the orchestrator stores an observation whose price differs from
\* the existing Price of the pair by more than 0.01, the superseded price is
\* archived as a PriceHistory row.
C3_StoreArchives ==
    [][ (Stepped /\ ThisCall.op = "store_product_data") =>
          LET c == ThisCall
          IN  \A i \in PairRows(prices, c.product_id, c.vendor_id) :
                  Abs(prices[i].price - c.obs.price) > 1 =>
                      /\ Len(history') = Len(history) + 1
                      /\ history'[Len(history')].price = prices[i].price ]_vars

\* C4: applying the same observation to the same (product, vendor) twice in
\* immediate succession leaves one Price row for the pair, and the second
\* apply adds no PriceHistory row.
C4_RepeatAddsNoHistory ==
    [][ (/\ Stepped
         /\ Len(calls) >= 1
         /\ ThisCall.op \in ApplyOps
         /\ calls[Len(calls)].op \in ApplyOps
         /\ ThisCall.product_id = calls[Len(calls)].product_id
         /\ ThisCall.vendor_id = calls[Len(calls)].vendor_id
         /\ ThisCall.obs = calls[Len(calls)].obs) =>
          /\ history' = history
          /\ Cardinality(PairRows(prices', ThisCall.product_id,
                                  ThisCall.vendor_id)) = 1 ]_vars

\* a material change was archived and the same observation applied again
C4_Witness ==
    /\ Len(calls) = 3
    /\ calls[2].op = "update_or_create_price"
    /\ calls[3] = calls[2]
    /\ Len(history) = 1
    /\ Cardinality(PairRows(prices, calls[3].product_id,
                            calls[3].vendor_id)) = 1

\* C5: the PriceHistory row that update_or_create_price archives holds the
\* values the Price had before the apply, and its recorded_at is the Price's
\* last_updated_at from before the apply, not the time of the new
\* observation.
C5_ArchiveHoldsOldValues ==
    [][ (/\ Stepped
         /\ ThisCall.op = "update_or_create_price"
         /\ Len(history') > Len(history)) =>
          LET c == ThisCall
              h == history'[Len(history')]
          IN  \E i \in PairRows(prices, c.product_id, c.vendor_id) :
                  /\ h.price_id = i
                  /\ h.product_id = c.product_id
                  /\ h.vendor_id = c.vendor_id
                  /\ h.price = prices[i].price
                  /\ h.original_price = prices[i].original_price
                  /\ h.discount_percentage = prices[i].discount_percentage
                  /\ h.stock_status = prices[i].stock_status
                  /\ h.product_url = prices[i].product_url
                  /\ h.variation_details = prices[i].variation_details
                  /\ h.recorded_at = prices[i].last_updated_at
                  /\ h.recorded_at # prices'[i].last_updated_at ]_vars

\* an archived row that differs from the current Price in every field
C5_Witness ==
    /\ Len(calls) = 2
    /\ calls[2].op = "update_or_create_price"
    /\ Len(history) = 1
    /\ history[1].recorded_at = 1
    /\ prices[1].last_updated_at = 2
    /\ history[1].stock_status # prices[1].stock_status
    /\ history[1].variation_details # prices[1].variation_details
    /\ history[1].discount_percentage # prices[1].discount_percentage

\* the discount the data model prescribes for a Price row
ExpectedDiscount(row) ==
    IF row.original_price # None /\ Val(row.original_price) > row.price
    THEN Some(RoundHalfEven((Val(row.original_price) - row.price) * 10000,
                            Val(row.original_price)))
    ELSE None

\* C6: every Price's discount_percentage is non-null exactly when its
\* original_price is present and strictly greater than its price, and then
\* equals (original_price - price) / original_price * 100 rounded to two
\* decimals; no discount of an earlier observation is carried over.
C6_DiscountDerived ==
    \A i \in 1..Len(prices) :
        prices[i].discount_percentage = ExpectedDiscount(prices[i])

\* C7: every apply to an existing Price sets stock_status, product_url,
\* variation_details and last_updated_at to the new observation's values.
C7_AlwaysOverwrites ==
    [][ (Stepped /\ ThisCall.op \in ApplyOps) =>
          LET c == ThisCall
          IN  \A i \in PairRows(prices, c.product_id, c.vendor_id) :
                  /\ prices'[i].stock_status = c.obs.stock_status
                  /\ prices'[i].product_url = c.obs.product_url
                  /\ prices'[i].variation_details = c.obs.variations
                  /\ prices'[i].last_updated_at = clock' ]_vars

\* C8: every apply to a product increases that product's popularity score
\* by exactly 1 and changes no other product's popularity score.
C8_PopularityPlusOne ==
    [][ (Stepped /\ ThisCall.op \in ApplyOps) =>
          \A p \in 1..Len(products) :
              products'[p].popularity_score =
                  products[p].popularity_score
                    + (IF p = ThisCall.product_id THEN 1 ELSE 0) ]_vars

\* the number of observations applied to a product
AppliedTo(p) ==
    Cardinality({k \in 1..Len(calls) :
                    calls[k].op \in ApplyOps /\ calls[k].product_id = p})

\* C9: a product's popularity score equals the number of observations
\* applied to it (2 after the observation that creates it and a second one
\* from another vendor that matches it).
C9_PopularityCountsApplies ==
    \A p \in 1..Len(products) : products[p].popularity_score = AppliedTo(p)

\* the highest composite score of a scraped name in a catalog
BestScore(scraped, catalog) ==
    IF catalog = <<>> THEN 0
    ELSE SetMax({CompositeScore(scraped, catalog[i].name) :
                    i \in 1..Len(catalog)})

\* C10: find_matching_product returns an existing product with the highest
\* composite score when that score is >= the similarity threshold and
\* creates nothing; otherwise it creates exactly one product, with the
\* scraped name, and returns it.
C10_MatchIffThreshold ==
    [][ (Stepped /\ ThisCall.op = "find_matching_product") =>
          LET c    == ThisCall
              best == BestScore(c.name, products)
          IN  IF products # <<>> /\ best >= similarity_threshold * ScoreUnit
              THEN /\ products' = products
                   /\ c.product_id \in 1..Len(products)
                   /\ CompositeScore(c.name, products[c.product_id].name)
                        = best
              ELSE /\ Len(products') = Len(products) + 1
                   /\ SubSeq(products', 1, Len(products)) = products
                   /\ products'[Len(products')].name = c.name
                   /\ c.product_id = Len(products') ]_vars

\* two catalog products score above the threshold and the later, higher
\* scoring one is returned
C10_Witness ==
    /\ Len(calls) = 3
    /\ Len(products) = 2
    /\ products[1].name = SonyA
    /\ products[2].name = Generic
    /\ calls[3].op = "find_matching_product"
    /\ calls[3].name = SonyB
    /\ calls[3].product_id = 2


-----------------------------------------------------------------------------
(* Category and brand of a new product *)

\* a call of the matcher that created a product
Created ==
    /\ Stepped
    /\ ThisCall.op = "find_matching_product"
    /\ Len(products') = Len(products) + 1

\* the positions in category_keywords whose keyword set matches the name
MatchingCategories(name) ==
    {i \in 1..Len(category_keywords) :
        \E k \in category_keywords[i].keywords : k \in KeywordsIn(name)}

-----------------------------------------------------------------------------
(* Scraper runs of the orchestration pass *)

Terminal == {"completed", "failed"}

\* run i as the pass holds it: the ScraperRun object of the current job,
\* else the row of the table
RunRecord(table, j, i) ==
    IF i = j.run_id /\ j.scraper_run # None THEN Val(j.scraper_run)
    ELSE table[i]

\* the vendor job of the pass has ended: the pass is at the clean-up of the
\* vendor, or an exception has left run_all_scrapers
JobEnded == job.pc \in {"cleanup", "aborted"} /\ job.run_id # 0

\* C12 as stated: once the status of a ScraperRun is 'completed' or
\* 'failed', its status, counts and completed_at never change again; a run
\* never goes from 'completed' to 'failed'
C12_TerminalRunNeverChanges ==
    [][\A i \in 1..Len(runs) :
        LET before == RunRecord(runs, job, i)
            after  == RunRecord(runs', job', i)
        IN  before.status \in Terminal =>
              /\ after.status = before.status
              /\ after.products_scraped = before.products_scraped
              /\ after.errors_count = before.errors_count
              /\ after.completed_at = before.completed_at]_vars

\* C13 as stated: a vendor run whose only failures are failed queries and
\* failed store operations ends 'completed', with errors_count the number
\* of failed queries plus failed stores and products_scraped the number of
\* observations stored
C13_ItemErrorsKeepRunCompleted ==
    (JobEnded /\ ~job.events.fatal) =>
        LET run == runs[job.run_id]
        IN  /\ run.status = "completed"
            /\ run.errors_count =
                  job.events.failed_fetches + job.events.failed_stores
            /\ run.products_scraped = job.events.stored

\* C14 as stated: when the pass is over, every configured vendor has a
\* ScraperRun of its own in a terminal status
C14_EveryVendorGetsTerminalRun ==
    job.pc \in {"done", "aborted"} =>
        \A v \in 1..Len(scrapers) :
            \E i \in 1..Len(runs) :
                /\ runs[i].vendor_id = scrapers[v]
                /\ runs[i].status \in Terminal

\* C15 as stated: a run that ended 'failed' reports the products_scraped
\* and errors_count accumulated before the fatal error, in its record and
\* in the summary of the pass
C15_FailedRunReportsCounts ==
    (job.pc = "cleanup" /\ runs[job.run_id].status = "failed") =>
        /\ runs[job.run_id].products_scraped = job.products_scraped
        /\ runs[job.run_id].errors_count = job.errors
        /\ \E k \in 1..Len(job.results.vendor_results) :
              LET entry == job.results.vendor_results[k]
              IN  /\ entry.vendor = scrapers[job.v]
                  /\ entry.products_scraped = job.products_scraped
                  /\ entry.errors = job.errors

\* C16 as stated: every ScraperRun in status 'completed' or 'failed' has
\* completed_at set and duration_seconds = completed_at - started_at in
\* whole seconds
C16_TerminalRunHasDuration ==
    \A i \in 1..Len(runs) :
        runs[i].status \in Terminal =>
            /\ runs[i].completed_at # None
            /\ runs[i].duration_seconds =
                  Some(DurationSeconds(runs[i].started_at,
                                       Val(runs[i].completed_at)))

\* C17 as stated: a store operation that fails is counted as one error,
\* the run goes on, and nothing of the failed observation is persistent
C17_FailedStoreLeavesNothing ==
    [][(job.pc = "store"
        /\ job'.events.failed_stores = job.events.failed_stores + 1) =>
            /\ job'.errors = job.errors + 1
            /\ job'.pc \in {"store", "query", "complete"}
            /\ products' = products
            /\ prices' = prices]_vars

\* C18 as stated: an observation with an empty name or a non-positive price
\* creates no Product and no Price and changes no popularity
C18_MalformedObservationRejected ==
    [][(Stepped /\ ThisCall.op = "store_product_data"
        /\ (ThisCall.name = EmptyName \/ ThisCall.obs.price <= 0)) =>
            /\ products' = products
            /\ prices' = prices]_vars

\* C19: a failure on attempt n is retried if and only if n < max_retries,
\* after a delay of 2^n seconds; the loop retries at most max_retries times,
\* gives up with a failure result carrying the last error, and always ends
C19_BoundedRetryTerminates ==
    /\ [][retry.pc = "failed" =>
            LET n == retry.attempt
            IN  /\ (retry'.pc = "try") <=> (n < retry.max_retries)
                /\ retry'.pc = "try" =>
                      /\ retry'.last_delay = Some(2 ^ n)
                      /\ retry'.attempt = n + 1
                      /\ retry'.retries = retry.retries + 1
                /\ retry'.pc # "try" =>
                      /\ retry'.pc = "done"
                      /\ retry'.result = "failure"
                      /\ retry'.last_error = retry.last_error
                      /\ retry'.last_error # None
                /\ retry'.retries <= retry.max_retries]_vars
    /\ <>(retry.pc = "done" /\ retry.result \in {"success", "failure"})

\* an operation that failed on every attempt was retried max_retries = 3
\* times, after 1, 2 and 4 seconds, and given up with a failure
C19_Witness ==
    /\ retry.pc = "done"
    /\ retry.result = "failure"
    /\ retry.max_retries = 3
    /\ retry.retries = 3
    /\ retry.slept = 7
    /\ retry.last_delay = Some(4)

\* C20 as stated: a failed fetch during a query is one error of the run's
\* errors_count and gives the ledger no observations for that query
C20_FailedFetchCountedOnce ==
    [][(job.pc = "query"
        /\ job'.events.failed_fetches = job.events.failed_fetches + 1) =>
            /\ job'.errors = job.errors + 1
            /\ job'.todo = <<>>]_vars

-----------------------------------------------------------------------------
(* Rate limit *)

\* C21 as stated: between two successive searches against the same vendor
\* within a run at least the vendor's rate_limit_delay elapses, whatever the
\* outcome of the earlier search
C21_DelayBetweenCalls ==
    [][(job.pc = "query" /\ job.last_call # None
        /\ job'.last_call = Some(clock)) =>
            clock - Val(job.last_call) >= rate_limit_delay(scrapers[job.v])]_vars

-----------------------------------------------------------------------------
(* Concurrent passes *)

\* the rows of the vendor's runs that are 'running'
RunningRuns(vendor_name) ==
    {i \in 1..Len(runs) :
        runs[i].vendor_id = vendor_name /\ runs[i].status = "running"}

\* C22 as stated: no vendor ever has two ScraperRun records with status
\* 'running' at the same time, also when two passes overlap
C22_OneRunningRunPerVendor ==
    \A v \in 1..Len(scrapers) : Cardinality(RunningRuns(scrapers[v])) <= 1

\* C23 as stated: when the concurrent writers have finished, the popularity
\* score of the product they stored to is its initial score (1, at its
\* creation) plus the number of successful stores
C23_NoLostPopularityUpdate ==
    (\A p \in Passes : procs[p].pc = "done") =>
        \A i \in 1..Len(products) :
            products[i].popularity_score =
                1 + procs[1].stored + procs[2].stored

-----------------------------------------------------------------------------
(* Price trends *)

\* the result of the analysis has trends
HasTrends ==
    /\ analysis # None
    /\ "price_trends" \in DOMAIN Val(analysis)
    /\ "vendor_trends" \in DOMAIN Val(analysis).price_trends

\* the k entries with the latest (newest = TRUE) or the earliest timestamps
RECURSIVE WindowByTime(_, _, _)
WindowByTime(entries, k, newest) ==
    IF Len(entries) <= k THEN entries
    ELSE LET drop == CHOOSE i \in 1..Len(entries) :
                        \A j \in 1..Len(entries) :
                            IF newest
                            THEN entries[i].timestamp <= entries[j].timestamp
                            ELSE entries[j].timestamp <= entries[i].timestamp
         IN  WindowByTime(SubSeq(entries, 1, drop - 1)
                              \o SubSeq(entries, drop + 1, Len(entries)),
                          k, newest)

\* (a - b) / b * 100, as a pair numerator, denominator (b > 0)
PercentMore(sum_a, n_a, sum_b, n_b) ==
    <<(sum_a * n_b - sum_b * n_a) * 100, sum_b * n_a>>

\* C24 as stated: a trend is 'stable' exactly when the absolute percentage
\* change is below 2, else 'increasing' or 'decreasing' by its sign, for
\* the trend of each vendor and for the overall market trend
C24_StableIffBelowTwoPercent ==
    HasTrends =>
        LET h == Val(analysis).price_history
            n == Len(h)
            t == Val(analysis).price_trends
            recent == SubSeq(h, Max(1, n - TrendWindow + 1), n)
            older  == SubSeq(h, 1, IF n < TrendWindow THEN n ELSE TrendWindow)
            pct == PercentMore(SumPrices(recent), Len(recent),
                               SumPrices(older), Len(older))
        IN  /\ \A v \in DOMAIN t.vendor_trends :
                  LET e == t.vendor_trends[v]
                      c == e.current_price - e.previous_price
                  IN  e.trend =
                        IF Abs(c) * 100 < 2 * e.previous_price THEN "stable"
                        ELSE IF c > 0 THEN "increasing" ELSE "decreasing"
            /\ t.overall_market_trend.direction =
                  IF Abs(pct[1]) < 2 * pct[2] THEN "stable"
                  ELSE IF pct[1] > 0 THEN "increasing" ELSE "decreasing"

\* C25 as stated: when the mean of the most recent prices is more than 2%
\* above the mean of the oldest prices the overall direction is
\* 'increasing', and when it is more than 2% below, 'decreasing'
C25_OverallTrendRecentAgainstOlder ==
    HasTrends =>
        LET h == Val(analysis).price_history
            recent == WindowByTime(h, TrendWindow, TRUE)
            older  == WindowByTime(h, TrendWindow, FALSE)
            pct == PercentMore(SumPrices(recent), Len(recent),
                               SumPrices(older), Len(older))
            direction ==
                Val(analysis).price_trends.overall_market_trend.direction
        IN  /\ pct[1] > 2 * pct[2] => direction = "increasing"
            /\ pct[1] < -2 * pct[2] => direction = "decreasing"

-----------------------------------------------------------------------------
(* The current price under sub-threshold changes *)

\* C28: after update_or_create_price the Price of the pair holds the price
\* of the applied observation, also when the change is not material, and a
\* change that is not material adds no PriceHistory row.
C28_PriceFollowsObservation ==
    [][ (Stepped /\ ThisCall.op = "update_or_create_price") =>
          LET c == ThisCall
          IN  /\ \E i \in PairRows(prices', c.product_id, c.vendor_id) :
                    prices'[i].price = c.obs.price
              /\ (\A i \in PairRows(prices, c.product_id, c.vendor_id) :
                      Abs(prices[i].price - c.obs.price) <= 1)
                    => history' = history ]_vars

\* a pair was stored and then applied twice, each apply moving the price
\* by 0.01: the current price is 0.02 away from the first one and nothing
\* was archived
C28_Witness ==
    /\ Len(calls) = 3
    /\ \A k \in 2..3 :
          /\ calls[k].op = "update_or_create_price"
          /\ calls[k].product_id = calls[1].product_id
          /\ calls[k].vendor_id = calls[1].vendor_id
    /\ \A k \in 1..2 : Abs(calls[k + 1].obs.price - calls[k].obs.price) = 1
    /\ \E i \in PairRows(prices, calls[1].product_id, calls[1].vendor_id) :
          /\ prices[i].price = calls[3].obs.price
          /\ Abs(prices[i].price - calls[1].obs.price) > 1
    /\ history = <<>>

-----------------------------------------------------------------------------
(* Per-vendor trends over the ledger *)

\* C30: in every state of the ledger the analysis of a product has no
\* per-vendor trend: its price history holds at most one point per vendor.
C30_NoVendorTrends ==
    HasTrends => DOMAIN Val(analysis).price_trends.vendor_trends = {}

\* the analysis of a product with Price rows of two vendors, made after a
\* material price change was archived
C30_Witness ==
    /\ HasTrends
    /\ Len(Val(analysis).price_history) = 2
    /\ Len(history) > 0
    /\ Val(analysis) = price_analysis(prices, history, 1, clock)

-----------------------------------------------------------------------------
(* Retention of the price history *)

\* C26: no step modifies a PriceHistory row; only cleanup_old_history
\* removes rows, and it removes exactly the rows recorded before the cutoff,
\* keeping the other rows and every Price row as they were.
C26_HistoryOnlyPruned ==
    [][ IF Stepped /\ ThisCall.op = "cleanup_old_history"
        THEN LET cutoff == ThisCall.cutoff_date
                 Newer(h) == h.recorded_at >= cutoff
             IN  /\ prices' = prices
                 /\ ThisCall.ok => /\ history' = SelectSeq(history, Newer)
                                   /\ ThisCall.deleted_count
                                        = Len(history) - Len(history')
                 /\ ~ ThisCall.ok => history' = history
        ELSE /\ Len(history') >= Len(history)
             /\ SubSeq(history', 1, Len(history)) = history ]_vars

\* a pruning with the default retention that removed a row, kept a row
\* recorded exactly at the cutoff and kept the row that an apply archived
\* just before
C26_Witness ==
    /\ calls # <<>>
    /\ LET c == calls[Len(calls)]
       IN  /\ c.op = "cleanup_old_history"
           /\ c.ok
           /\ c.deleted_count > 0
           /\ c.cutoff_date = Len(calls) - timedelta(90)
           /\ \E k \in 1..Len(history) : history[k].recorded_at = c.cutoff_date
           /\ Len(calls) > 1
           /\ calls[Len(calls) - 1].op = "update_or_create_price"
           /\ history[Len(history)].recorded_at = -timedelta(1)

-----------------------------------------------------------------------------
(* Resolving a name twice *)

\* C29: when find_matching_product resolves the name that the call before
\* it resolved, it creates no product and returns the product of that call,
\* for every name, the empty name included.
C29_SecondResolveReturnsFirst ==
    [][ (/\ Stepped
         /\ ThisCall.op = "find_matching_product"
         /\ calls # <<>>
         /\ calls[Len(calls)].op = "find_matching_product"
         /\ calls[Len(calls)].name = ThisCall.name) =>
            /\ products' = products
            /\ ThisCall.product_id = calls[Len(calls)].product_id ]_vars

\* the empty name was resolved twice against a catalog of other products:
\* the first call created a product and the second one returned it
C29_Witness ==
    /\ Len(calls) = 3
    /\ calls[1].name # EmptyName
    /\ calls[2].name = EmptyName
    /\ calls[3].name = EmptyName
    /\ calls[3].product_id = 2
    /\ Len(products) = 2

-----------------------------------------------------------------------------
(* Coverage of the four vendors *)

\* C27 as stated: when scrape_all_vendors_for_product has finished, the
\* product it resolved has a Price for each of amazon, bestbuy, walmart and
\* brand, whatever the three searches did
C27_FourVendorCoverage ==
    [][ (Stepped /\ ThisCall.op = "scrape_all_vendors_for_product") =>
          \A vid \in {"amazon", "bestbuy", "walmart", "brand"} :
              PairRows(prices', ThisCall.product_id, vid) # {} ]_vars

=============================================================================
